---- MODULE Spec2Model ----
(***************************************************************************)
(* A model of the continuous "imagine" generation orchestrator of          *)
(* app/api/v1/public_api/imagine.py: the session store, the WebSocket      *)
(* endpoint (message loop, _stop_run, the _run task) and the SSE endpoint  *)
(* (event_stream), at the granularity of their await / yield points.       *)
(***************************************************************************)
EXTENDS Integers, Sequences, FiniteSets, TLC

\* ------------------------------------------------------------------ bounds
MaxQuantity == 3
MaxConcurrent == 2
MaxRounds == 3
MaxDeviations == 1
MaxStarts == 2
MaxTime == 601
MaxCalls == 4
MaxIds == 2
MaxRequests == 4
MaxMono == 5
TicksPerSecond == 2

\* ------------------------------------------------------- program constants
IMAGINE_SESSION_TTL == 600

\* Clock steps (seconds), chosen so that an age of exactly TTL and of TTL + 1
\* are both reached.
TickSteps == {600, 601}

SessionIds == {"s1"}

\* (quantity, concurrent) of the cases of scripts/run_imagine_public_cases.py
ScenarioParams == {<<1, 3>>, <<8, 3>>, <<0, 3>>}

\* The run parameters the model draws from: every small pair, and the scenarios.
Params == ((0..MaxQuantity) \X (1..MaxConcurrent)) \cup ScenarioParams

Min(a, b) == IF a <= b THEN a ELSE b
Max(a, b) == IF a >= b THEN a ELSE b

\* --------------------------------------------------------------- the state
VARIABLES
  now,        \* time.time()
  sessions,   \* _IMAGINE_SESSIONS
  usedIds,    \* the ids uuid4 has handed out
  transport,  \* "none" | "ws" | "sse": what the client opened
  ws,         \* the WebSocket handler's locals
  tasks,      \* the run tasks / the SSE generator, by run number
  sse,        \* the SSE handler's locals
  log,        \* the events sent by the run the connection holds
  gh,         \* history of the latest run (not program state)
  oracle,     \* the outcomes the collaborators gave, for a replay
  client,     \* the (quantity, concurrent) the client asks for
  limiter,    \* _LIMITER._buckets and time.monotonic()
  call,       \* the call being answered outside the imagine run, and its answer
  config,     \* get_config("rate_limit.*")
  batch       \* the batch task registry, the job and the listeners of its stream

\* The state outside the imagine orchestrator.
aux == <<limiter, call, config, batch>>

vars == <<now, sessions, usedIds, transport, ws, tasks, sse, log, gh, oracle, client, aux>>

\* ------------------------------------------------------------------ events
\* One JSON event of the stream, reduced to the keys the orchestrator sets.
\* kind is the event's "status" (status events), "code" (error events) or the
\* payload class (forwarded chunks and images).
Ev(run, type, kind, round, n, gc, tc, reason) ==
  [run |-> run, type |-> type, kind |-> kind, round |-> round, request_n |-> n,
   generated_count |-> gc, target_count |-> tc, reason |-> reason,
   batch_size |-> 0, sequence |-> 0]

EvError(run, code) == Ev(run, "error", code, 0, 0, 0, 0, "")
EvRunning(run, r) ==
  [Ev(run, "status", "running", 0, 0, 0, r.target_count, "")
     EXCEPT !.batch_size = r.batch_size]
EvRoundDone(run, r) ==
  Ev(run, "status", "round_done", r.round_index, r.request_n, r.final_count,
     r.target_count, "")
EvStopped(run, r) ==
  Ev(run, "status", "stopped", 0, 0, r.final_count, r.target_count, r.stop_reason)
\* A chunk of the provider's stream, forwarded as parsed: a final image or a
\* progress payload.
EvChunk(run, kind) == Ev(run, IF kind = "final" THEN "image" ELSE "chunk", kind, 0, 0, 0, 0, "")
\* The image event synthesized from one entry of a list result; the SSE
\* stream numbers them ("sequence"), the WebSocket does not.
EvImage(run, sequence) ==
  [Ev(run, "image", "final", 0, 0, 0, 0, "") EXCEPT !.sequence = sequence]

\* ------------------------------------------------------------ session store
\* A prompt is a sequence of characters; nsfw is "null", "true" or "false".
NoSession ==
  [present |-> FALSE, prompt |-> <<>>, aspect_ratio |-> "", nsfw |-> "null",
   quantity |-> 0, concurrent |-> 0, created_at |-> 0]

Expired(info, t) == t - info.created_at > IMAGINE_SESSION_TTL

\* _clean_sessions(now): every entry older than the TTL is popped.
CleanSessions(store, t) ==
  [k \in DOMAIN store |->
     IF store[k].present /\ Expired(store[k], t) THEN NoSession ELSE store[k]]

\* _get_session(task_id): the store after the sweep, and the copy returned
\* (NoSession for None).
GetSessionStore(store, t) == CleanSessions(store, t)
GetSession(store, id, t) ==
  IF id = "" THEN NoSession ELSE GetSessionStore(store, t)[id]

\* _drop_session(task_id)
DropSession(store, id) ==
  IF id = "" THEN store ELSE [store EXCEPT ![id] = NoSession]

\* _drop_sessions(task_ids): the store afterwards
DropSessions(store, ids) ==
  [k \in DOMAIN store |-> IF k \in ids THEN NoSession ELSE store[k]]

\* _new_session(...): the store after the sweep and the insertion under the
\* fresh id.
NewSession(store, id, prompt, aspect_ratio, nsfw, quantity, concurrent, t) ==
  [CleanSessions(store, t) EXCEPT ![id] =
     [present |-> TRUE, prompt |-> prompt, aspect_ratio |-> aspect_ratio,
      nsfw |-> nsfw, quantity |-> quantity, concurrent |-> concurrent,
      created_at |-> t]]

\* ----------------------------------------------------------------- the run
\* The locals of one _run coroutine / event_stream generator.
NoRun ==
  [pc |-> "none", target_count |-> 0, batch_size |-> 0, final_count |-> 0,
   stop_reason |-> "stopped", round_index |-> 0, request_n |-> 0,
   stream |-> FALSE, data |-> <<>>, nfinal |-> 0, sequence |-> 0]

\* A finished coroutine keeps no locals.
Ended(pc) == [NoRun EXCEPT !.pc = pc]

NewRun(q, c) ==
  [NoRun EXCEPT !.pc = "created", !.target_count = Max(0, q),
                !.batch_size = Max(1, c)]

\* A request size that forgets how much of the quantity is left.
RequestNUnclamped(target_count, batch_size, final_count) == batch_size

\* request_n of a round (imagine.py 255-260 and 550-555)
RequestN(target_count, batch_size, final_count) ==
  IF target_count <= 0 THEN batch_size
  ELSE Max(1, Min(batch_size, target_count - final_count))

\* The head of a loop iteration, from the quantity check to the await of
\* reload_if_stale: either the loop is left with quantity_reached, or a round
\* begins.
\* A quantity check that never fires.
QuantityNeverReached(r) == FALSE

QuantityReached(r) == r.target_count > 0 /\ r.final_count >= r.target_count

\* A head that does not count the iteration it begins.
RoundHeadUnnumbered(r) ==
  IF QuantityReached(r)
  THEN [r EXCEPT !.stop_reason = "quantity_reached", !.pc = "stopped_send"]
  ELSE [r EXCEPT !.request_n = RequestN(r.target_count, r.batch_size, r.final_count),
                 !.stream = FALSE, !.data = <<>>, !.nfinal = 0,
                 !.pc = "reload"]

\* A head that sets the stop reason whether or not the quantity is reached.
RoundHeadMarksQuantity(r) ==
  IF QuantityReached(r)
  THEN [r EXCEPT !.stop_reason = "quantity_reached", !.pc = "stopped_send"]
  ELSE [r EXCEPT !.stop_reason = "quantity_reached",
                 !.round_index = r.round_index + 1,
                 !.request_n = RequestN(r.target_count, r.batch_size, r.final_count),
                 !.stream = FALSE, !.data = <<>>, !.nfinal = 0,
                 !.pc = "reload"]

RoundHead(r) ==
  IF QuantityReached(r)
  THEN [r EXCEPT !.stop_reason = "quantity_reached", !.pc = "stopped_send"]
  ELSE [r EXCEPT !.round_index = r.round_index + 1,
                 !.request_n = RequestN(r.target_count, r.batch_size, r.final_count),
                 !.stream = FALSE, !.data = <<>>, !.nfinal = 0,
                 !.pc = "reload"]

\* WebSocket: `while not stop_event.is_set()` and then the head of the round.
WsLoopTop(r, stop_event) ==
  IF stop_event THEN [r EXCEPT !.pc = "stopped_send"] ELSE RoundHead(r)

\* A loop that is left after its first iteration.
SseAfterTryBreaks(r) == [r EXCEPT !.pc = "stopped_send"]

\* SSE: the statement after the try block (imagine.py 633-634); the loop's
\* own head awaits request.is_disconnected() first.
SseAfterTry(r) ==
  IF r.stop_reason = "quantity_reached" THEN [r EXCEPT !.pc = "stopped_send"]
  ELSE [r EXCEPT !.pc = "poll"]

\* ---------------------------------------------------------------- history
\* log holds what the client of the current run has been sent: it is emptied
\* when the client disconnects (nothing is sent to it any more) and when the
\* connection lets go of the run (run_task = None).
NoHistory ==
  [devs |-> 0, exact |-> TRUE, produced |-> 0, hit |-> "", stopReq |-> "",
   roundAtStop |-> 0, doneAtStop |-> 0, dropped |-> FALSE, acqAfterDrop |-> FALSE,
   exit |-> "", entered |-> FALSE]

\* The history of a new run: the deviation budget is the model's, not the run's.
FreshHistory(g) == [NoHistory EXCEPT !.devs = g.devs]

CanDeviate == gh.devs < MaxDeviations
Deviate(g) == [g EXCEPT !.devs = @ + 1, !.exact = FALSE]

RoundDones(l) == SelectSeq(l, LAMBDA e : e.kind = "round_done")
Stoppeds(l) == SelectSeq(l, LAMBDA e : e.kind = "stopped")

\* ------------------------------------------------------------------- Init
NoWs ==
  [pc |-> "none", session_id |-> "", connected |-> FALSE, stop_event |-> FALSE,
   run_task |-> 0, runs |-> 0, then |-> "", pending |-> <<0, 1>>]

NoSse == [run |-> 0, task_id |-> "", disconnected |-> FALSE]

NoOracle == [seq |-> <<>>, pos |-> 1, ref |-> <<>>]

\* No request has reached the limiter, no call is being answered.
NoLimiter == [buckets |-> <<>>, monotonic |-> 0, strangers |-> 0]
NoCall == [op |-> "none", seq |-> 0]
NoConfig == [enabled |-> FALSE]
\* No batch job was started.
NoBatch == [registry |-> {}]
AuxIdle == limiter = NoLimiter /\ call = NoCall /\ config = NoConfig /\ batch = NoBatch

Init ==
  /\ now = 0
  /\ sessions = [k \in SessionIds |-> NoSession]
  /\ usedIds = {}
  /\ transport = "none"
  /\ ws = NoWs
  /\ tasks = [i \in 1..MaxStarts |-> NoRun]
  /\ sse = NoSse
  /\ log = <<>>
  /\ gh = NoHistory
  /\ oracle = NoOracle
  /\ client \in Params
  /\ AuxIdle

\* ------------------------------------------------------ time and sessions
\* The session store is read by the two opens, by the first start message of
\* a WebSocket opened with a session (the defaults; later starts carry their
\* own parameters) and by the liveness poll of an SSE stream opened with one.
\* The clock and POST /imagine/stop act where one of them can see it; for the
\* WebSocket's defaults an expired session and a stopped one are alike, and
\* only the stop is modelled.
ClockRead ==
  \/ transport = "none"
  \/ transport = "sse" /\ sse.task_id # "" /\ tasks[sse.run].pc = "poll"

StoreRead ==
  \/ transport = "none"
  \/ transport = "ws" /\ ws.pc = "recv" /\ ws.session_id # "" /\ ws.runs = 0
  \/ transport = "sse" /\ sse.task_id # "" /\ tasks[sse.run].pc \notin {"done", "closed"}

\* The clock is read by the session store alone: it is advanced only while a
\* session exists.
Tick ==
  /\ ClockRead
  /\ \E k \in SessionIds : sessions[k].present
  /\ \E d \in TickSteps : now + d <= MaxTime /\ now' = now + d
  /\ UNCHANGED <<sessions, usedIds, transport, ws, tasks, sse, log, gh, oracle, client, aux>>

\* POST /imagine/start with valid parameters: _new_session
StartSession ==
  /\ transport = "none"
  /\ \E id \in SessionIds \ usedIds, p \in {client} :
       /\ usedIds' = usedIds \cup {id}
       /\ sessions' = NewSession(sessions, id, <<"p">>, "2:3", "null",
                                 p[1], p[2], now)
  /\ UNCHANGED <<now, transport, ws, tasks, sse, log, gh, oracle, client, aux>>

\* POST /imagine/stop: _drop_sessions
StopSessions ==
  /\ StoreRead
  /\ \E ids \in (SUBSET usedIds) \ {{}} :
       /\ sessions' = DropSessions(sessions, ids)
       /\ gh' = IF sse.task_id \in ids /\ sessions[sse.task_id].present
                   /\ tasks[sse.run].pc \notin {"done", "closed"}
                THEN [gh EXCEPT !.dropped = TRUE, !.stopReq = "drop",
                                !.roundAtStop = tasks[sse.run].round_index,
                                !.doneAtStop = Len(RoundDones(log))]
                ELSE gh
  /\ UNCHANGED <<now, usedIds, transport, ws, tasks, sse, log, oracle, client, aux>>

\* ------------------------------------------------- the collaborators' answers
IsSse(i) == sse.run = i
Replaying(i) == transport = "pair" /\ IsSse(i)

\* An answer of ModelService, TokenManager or ImageGenerationService.
Answer(k, l) == [k |-> k, l |-> l]

\* In a replay the SSE run is given the answers the WebSocket run was given.
Allowed(i, o) ==
  Replaying(i) =>
    /\ oracle.pos <= Len(oracle.seq)
    /\ oracle.seq[oracle.pos] = o

Recorded(i, o) ==
  IF transport # "pair" THEN oracle
  ELSE IF IsSse(i) THEN [oracle EXCEPT !.pos = @ + 1]
  ELSE [oracle EXCEPT !.seq = Append(@, o)]

\* An answer off the nominal course uses the model's deviation budget; an
\* exhausted token pool does not (the loop's horizon bounds it).
MayAnswer(i, nominal) == nominal \/ Replaying(i) \/ CanDeviate

Charged(i, g, nominal) ==
  IF nominal THEN g
  ELSE IF Replaying(i) THEN [g EXCEPT !.exact = FALSE]
  ELSE Deviate(g)

Images(k) == [j \in 1..k |-> "img"]

\* What generate() may return as a list for a request of n images.
ListResults(n) ==
  {Images(k) : k \in 0..(n + 1)} \cup {<<"error">>, <<"", "img">>}

\* `[img for img in result.data if img and img != "error"]`
RECURSIVE ValidImages(_)
ValidImages(l) ==
  IF l = <<>> THEN <<>>
  ELSE IF Head(l) # "" /\ Head(l) # "error"
       THEN <<Head(l)>> \o ValidImages(Tail(l))
       ELSE ValidImages(Tail(l))

GenerateAnswers(n) ==
  {Answer("raise", <<>>), Answer("stream", <<>>)}
    \cup {Answer("list", l) : l \in ListResults(n)}

\* ------------------------------------------------------------ run plumbing
Connected(i) == IF IsSse(i) THEN ~sse.disconnected ELSE ws.connected

\* The events a client receives are recorded where one connection is open.
Sent(i, e) ==
  IF Connected(i) /\ transport # "shared" THEN Append(log, e) ELSE log

\* event_stream's `finally`: the session the stream was opened with is dropped.
SseFinallyKeeps(i) == sessions
SseFinally(i) == IF IsSse(i) THEN DropSession(sessions, sse.task_id) ELSE sessions

\* Where a loop iteration that ended with `continue` goes on.
NextIteration(i, r) ==
  IF IsSse(i) THEN [r EXCEPT !.pc = "poll"] ELSE WsLoopTop(r, ws.stop_event)

\* Where an iteration that ran to the end of its try statement goes on.
AfterTry(i, r) ==
  IF IsSse(i) THEN SseAfterTry(r) ELSE WsLoopTop(r, ws.stop_event)

Runs == 1..MaxStarts

\* ------------------------------------------------------------ the run steps
\* ModelService.get, get_token_manager, up to the first send.
Begin(i) ==
  /\ tasks[i].pc = "created"
  /\ \E o \in {Answer("model_ok", <<>>), Answer("model_missing", <<>>)} :
       /\ Allowed(i, o)
       /\ MayAnswer(i, o.k = "model_ok")
       /\ tasks' = [tasks EXCEPT ![i].pc =
                      IF o.k = "model_ok" THEN "running_send" ELSE "model_err_send"]
       /\ gh' = Charged(i, gh, o.k = "model_ok")
       /\ oracle' = Recorded(i, o)
  /\ UNCHANGED <<now, sessions, usedIds, transport, ws, sse, log, client, aux>>

SendModelError(i) ==
  /\ tasks[i].pc = "model_err_send"
  /\ log' = Sent(i, EvError(i, "model_not_supported"))
  /\ tasks' = [tasks EXCEPT ![i] = Ended("done")]
  /\ sessions' = SseFinally(i)
  /\ UNCHANGED <<now, usedIds, transport, ws, sse, gh, oracle, client, aux>>

SendRunning(i) ==
  /\ tasks[i].pc = "running_send"
  /\ log' = Sent(i, EvRunning(i, tasks[i]))
  /\ tasks' = [tasks EXCEPT ![i] = NextIteration(i, tasks[i])]
  /\ gh' = [gh EXCEPT !.entered = TRUE]
  /\ UNCHANGED <<now, sessions, usedIds, transport, ws, sse, oracle, client, aux>>

\* A poll that does not look at the session.
PollNoLiveness(i) ==
  /\ tasks[i].pc = "poll"
  /\ IF sse.disconnected
     THEN /\ tasks' = [tasks EXCEPT ![i].pc = "stopped_send"]
          /\ gh' = [gh EXCEPT !.exit = "disconnect"]
     ELSE /\ tasks' = [tasks EXCEPT ![i] = RoundHead(tasks[i])]
          /\ UNCHANGED gh
  /\ UNCHANGED <<now, sessions, usedIds, transport, ws, sse, log, oracle, client, aux>>

\* SSE: request.is_disconnected(), the session's liveness, the round's head.
Poll(i) ==
  /\ tasks[i].pc = "poll"
  /\ IF sse.disconnected
     THEN /\ tasks' = [tasks EXCEPT ![i].pc = "stopped_send"]
          /\ gh' = [gh EXCEPT !.exit = "disconnect"]
          /\ UNCHANGED sessions
     ELSE IF sse.task_id # ""
     THEN /\ sessions' = GetSessionStore(sessions, now)
          /\ IF GetSession(sessions, sse.task_id, now).present
             THEN tasks' = [tasks EXCEPT ![i] = RoundHead(tasks[i])] /\ UNCHANGED gh
             ELSE /\ tasks' = [tasks EXCEPT ![i].pc = "stopped_send"]
                  /\ gh' = [gh EXCEPT !.exit =
                              IF gh.dropped THEN "dropped" ELSE "expired"]
     ELSE /\ tasks' = [tasks EXCEPT ![i] = RoundHead(tasks[i])]
          /\ UNCHANGED <<sessions, gh>>
  /\ UNCHANGED <<now, usedIds, transport, ws, sse, log, oracle, client, aux>>

\* reload_if_stale() returns or raises; then the pool candidates are tried.
ReloadReturn(i) ==
  /\ tasks[i].pc = "reload"
  /\ Replaying(i) \/ tasks[i].round_index <= MaxRounds + gh.devs
  /\ \E o \in {Answer("token", <<>>), Answer("no_token", <<>>),
               Answer("reload_raises", <<>>)} :
       /\ Allowed(i, o)
       /\ MayAnswer(i, o.k # "reload_raises")
       /\ tasks' = [tasks EXCEPT ![i].pc =
                      CASE o.k = "token" -> "generate"
                        [] o.k = "no_token" -> "notoken_send"
                        [] OTHER -> "exc_send"]
       /\ gh' = [Charged(i, gh, o.k # "reload_raises") EXCEPT
                   !.exact = @ /\ o.k = "token",
                   !.acqAfterDrop = @ \/ (gh.dropped /\ o.k # "reload_raises")]
       /\ oracle' = Recorded(i, o)
  /\ UNCHANGED <<now, sessions, usedIds, transport, ws, sse, log, client, aux>>

SendNoToken(i) ==
  /\ tasks[i].pc = "notoken_send"
  /\ log' = Sent(i, EvError(i, "rate_limit_exceeded"))
  /\ tasks' = [tasks EXCEPT ![i].pc = "notoken_sleep"]
  /\ UNCHANGED <<now, sessions, usedIds, transport, ws, sse, gh, oracle, client, aux>>

\* A backoff that ends with `break`.
WakeNoTokenBreaks(i) ==
  /\ tasks[i].pc = "notoken_sleep"
  /\ tasks' = [tasks EXCEPT ![i].pc = "stopped_send"]
  /\ UNCHANGED <<now, sessions, usedIds, transport, ws, sse, log, gh, oracle, client, aux>>

\* asyncio.sleep(2) is over: `continue`
WakeNoToken(i) ==
  /\ tasks[i].pc = "notoken_sleep"
  /\ tasks' = [tasks EXCEPT ![i] = NextIteration(i, tasks[i])]
  /\ UNCHANGED <<now, sessions, usedIds, transport, ws, sse, log, gh, oracle, client, aux>>

\* ImageGenerationService().generate(...) returns a stream, a list, or raises.
GenerateReturn(i) ==
  /\ tasks[i].pc = "generate"
  /\ \E o \in GenerateAnswers(tasks[i].request_n) :
       LET r == tasks[i]
           images == ValidImages(o.l)
           nominal == o.k = "stream" \/ (o.k = "list" /\ o.l = Images(r.request_n))
       IN /\ Allowed(i, o)
          /\ MayAnswer(i, nominal)
          /\ tasks' = [tasks EXCEPT ![i] =
               CASE o.k = "raise" -> [r EXCEPT !.pc = "exc_send"]
                 [] o.k = "stream" -> [r EXCEPT !.pc = "chunk", !.stream = TRUE]
                 [] OTHER ->
                    IF images # <<>>
                    THEN [r EXCEPT !.pc = "img_send", !.data = images]
                    ELSE [r EXCEPT !.pc = "empty_send"]]
          /\ gh' = [Charged(i, gh, nominal) EXCEPT !.produced = @ + Len(images)]
          /\ oracle' = Recorded(i, o)
  /\ UNCHANGED <<now, sessions, usedIds, transport, ws, sse, log, client, aux>>

\* `async for chunk in result.data`: the next chunk, the end, or an exception.
\* "junk" is a chunk _parse_sse_chunk gives None for; "partial" a progress
\* payload; "final" a payload _is_final_image_payload accepts.
NextChunk(i) ==
  /\ tasks[i].pc = "chunk"
  /\ \E o \in {Answer(k, <<>>) : k \in {"final", "partial", "junk", "raise", "end"}} :
       LET r == tasks[i]
           nominal == \/ o.k = "final" /\ r.nfinal < r.request_n
                      \/ o.k = "end" /\ r.nfinal = r.request_n
       IN /\ Allowed(i, o)
          /\ MayAnswer(i, nominal)
          /\ o.k = "final" => r.nfinal <= r.request_n
          /\ tasks' = [tasks EXCEPT ![i] =
               CASE o.k \in {"final", "partial"} ->
                      [r EXCEPT !.pc = "chunk_send", !.data = <<o.k>>,
                                !.nfinal = @ + (IF o.k = "final" THEN 1 ELSE 0)]
                 [] o.k = "junk" -> r
                 [] o.k = "raise" -> [r EXCEPT !.pc = "exc_send", !.data = <<>>]
                 [] OTHER -> [r EXCEPT !.pc = "round_send", !.data = <<>>]]
          /\ gh' = [Charged(i, gh, nominal) EXCEPT !.produced =
                      @ + (IF o.k = "final" THEN 1 ELSE 0)]
          /\ oracle' = Recorded(i, o)
  /\ UNCHANGED <<now, sessions, usedIds, transport, ws, sse, log, client, aux>>

\* A count that never looks at the quantity.
\* No count at all.
Uncounted(r) == r
CountedUnchecked(r) == [r EXCEPT !.final_count = @ + 1]

\* final_count += 1 and the quantity check that follows every final image
Counted(r) ==
  LET c == [r EXCEPT !.final_count = @ + 1]
  IN IF QuantityReached(c)
     THEN [c EXCEPT !.stop_reason = "quantity_reached", !.pc = "round_send",
                    !.data = <<>>]
     ELSE c

\* The parsed chunk is sent; a final image is counted.
SendChunk(i) ==
  /\ tasks[i].pc = "chunk_send"
  /\ LET r == tasks[i]
         kind == Head(r.data)
         next == [r EXCEPT !.pc = "chunk", !.data = <<>>]
     IN /\ log' = Sent(i, EvChunk(i, kind))
        /\ tasks' = [tasks EXCEPT ![i] =
                       IF kind = "final" THEN Counted(next) ELSE next]
  /\ UNCHANGED <<now, sessions, usedIds, transport, ws, sse, gh, oracle, client, aux>>

\* List mode: one image event per valid entry, counted after it is sent.
SendImage(i) ==
  /\ tasks[i].pc = "img_send"
  /\ LET r == tasks[i]
         rest == Tail(r.data)
         sequence == IF IsSse(i) THEN r.sequence + 1 ELSE 0
         next == [r EXCEPT !.data = rest, !.sequence = sequence,
                           !.pc = IF rest = <<>> THEN "round_send" ELSE "img_send"]
     IN /\ log' = Sent(i, EvImage(i, sequence))
        /\ tasks' = [tasks EXCEPT ![i] = Counted(next)]
  /\ UNCHANGED <<now, sessions, usedIds, transport, ws, sse, gh, oracle, client, aux>>

SendEmpty(i) ==
  /\ tasks[i].pc = "empty_send"
  /\ log' = Sent(i, EvError(i, "empty_image"))
  /\ tasks' = [tasks EXCEPT ![i].pc = "round_send"]
  /\ UNCHANGED <<now, sessions, usedIds, transport, ws, sse, gh, oracle, client, aux>>

SendRoundDone(i) ==
  /\ tasks[i].pc = "round_send"
  /\ log' = Sent(i, EvRoundDone(i, tasks[i]))
  /\ tasks' = [tasks EXCEPT ![i] = AfterTry(i, tasks[i])]
  /\ UNCHANGED <<now, sessions, usedIds, transport, ws, sse, gh, oracle, client, aux>>

\* `except Exception`: the error event, then asyncio.sleep(1.5)
SendInternalError(i) ==
  /\ tasks[i].pc = "exc_send"
  /\ log' = Sent(i, EvError(i, "internal_error"))
  /\ tasks' = [tasks EXCEPT ![i].pc = "exc_sleep"]
  /\ UNCHANGED <<now, sessions, usedIds, transport, ws, sse, gh, oracle, client, aux>>

WakeError(i) ==
  /\ tasks[i].pc = "exc_sleep"
  /\ tasks' = [tasks EXCEPT ![i] = AfterTry(i, tasks[i])]
  /\ UNCHANGED <<now, sessions, usedIds, transport, ws, sse, log, gh, oracle, client, aux>>

\* The terminal status event; the coroutine returns.
SendStopped(i) ==
  /\ tasks[i].pc = "stopped_send"
  /\ log' = Sent(i, EvStopped(i, tasks[i]))
  /\ tasks' = [tasks EXCEPT ![i] = Ended("done")]
  /\ sessions' = SseFinally(i)
  /\ UNCHANGED <<now, usedIds, transport, ws, sse, gh, oracle, client, aux>>

RunStep(i) ==
  \/ Begin(i) \/ SendModelError(i) \/ SendRunning(i) \/ Poll(i)
  \/ ReloadReturn(i) \/ SendNoToken(i) \/ WakeNoToken(i)
  \/ GenerateReturn(i) \/ NextChunk(i) \/ SendChunk(i) \/ SendImage(i)
  \/ SendEmpty(i) \/ SendRoundDone(i) \/ SendInternalError(i) \/ WakeError(i)
  \/ SendStopped(i)

\* ------------------------------------------------------------ cancellation
\* The await points of _run inside its try statement: a CancelledError raised
\* there is caught by `except asyncio.CancelledError: break`.
InTry ==
  {"reload", "notoken_send", "notoken_sleep", "generate", "chunk", "chunk_send",
   "img_send", "empty_send", "round_send"}

\* The await points outside it (before the loop, in the `except Exception`
\* handler, after the loop): a CancelledError raised there leaves the coroutine.
OutOfTry == {"model_err_send", "running_send", "exc_send", "exc_sleep", "stopped_send"}

Finished == {"none", "done", "cancelled", "closed"}

\* The event a run suspended in a send is sending.
PendingEvent(i, r) ==
  CASE r.pc = "model_err_send" -> EvError(i, "model_not_supported")
    [] r.pc = "running_send" -> EvRunning(i, r)
    [] r.pc = "notoken_send" -> EvError(i, "rate_limit_exceeded")
    [] r.pc = "chunk_send" -> EvChunk(i, Head(r.data))
    [] r.pc = "img_send" -> EvImage(i, 0)
    [] r.pc = "empty_send" -> EvError(i, "empty_image")
    [] r.pc = "round_send" -> EvRoundDone(i, r)
    [] r.pc = "exc_send" -> EvError(i, "internal_error")
    [] OTHER -> EvStopped(i, r)

Sending(r) ==
  r.pc \in {"model_err_send", "running_send", "notoken_send", "chunk_send",
            "img_send", "empty_send", "round_send", "exc_send", "stopped_send"}

\* task.cancel() on a coroutine suspended at r.pc: CancelledError is raised at
\* that await when the task next runs.
CancelledAt(r) ==
  IF r.pc \in InTry THEN [r EXCEPT !.pc = "stopped_send", !.data = <<>>]
  ELSE Ended("cancelled")

\* `if run_task and not run_task.done()`
MustStopNever(i) == FALSE
MustStop(i) == i # 0 /\ tasks[i].pc \notin Finished

\* The client of a behaviour either works with a session (it creates one and
\* opens its stream with the task_id, without a public key) or without any.
ClientUses(tid) == IF tid = "" THEN usedIds = {} ELSE tid \in usedIds

\* ------------------------------------------------------ WebSocket handler
\* /imagine/ws: the session lookup, the public-key check, accept.
\* `from` and `to` say what the client had open before and has afterwards.
WsOpens(from, to) ==
  /\ transport = from
  /\ ws.pc = "none"
  /\ \E tid \in SessionIds \cup {""}, keyOk \in BOOLEAN :
       LET found == GetSession(sessions, tid, now).present
       IN /\ ClientUses(tid)
          /\ tid # "" => ~keyOk
          /\ sessions' = IF tid = "" THEN sessions ELSE GetSessionStore(sessions, now)
          /\ IF found \/ keyOk
             THEN /\ ws' = [NoWs EXCEPT !.pc = "recv", !.connected = TRUE,
                                       !.session_id = IF found THEN tid ELSE ""]
                  /\ transport' = to
             ELSE UNCHANGED <<ws, transport>>
  /\ UNCHANGED <<now, usedIds, tasks, sse, log, gh, oracle, client, aux>>

WsOpen == WsOpens("none", "ws")

\* asyncio.create_task(_run(...)) after _stop_run returned
Created(w, q, c) ==
  [w EXCEPT !.pc = "recv", !.run_task = w.runs + 1, !.runs = w.runs + 1,
            !.stop_event = FALSE, !.then = "", !.pending = <<0, 1>>]

\* The handler's `finally` once _stop_run returned: close, _drop_session.
Closed(w) ==
  [w EXCEPT !.pc = "closed", !.connected = FALSE, !.run_task = 0,
            !.stop_event = FALSE, !.then = "", !.pending = <<0, 1>>]

\* _stop_run() up to its `await run_task`: the event is set and the task
\* cancelled where it is suspended; a send it is suspended in may or may not
\* have gone out.
StopRunBegins(then, params) ==
  LET i == ws.run_task
      r == tasks[i]
  IN /\ MustStop(i)
     /\ ws' = [ws EXCEPT !.pc = "stop_wait", !.stop_event = TRUE, !.then = then,
                         !.pending = params,
                         !.connected = IF then = "close" THEN FALSE ELSE @]
     /\ tasks' = [tasks EXCEPT ![i] = CancelledAt(r)]
     /\ \E delivered \in BOOLEAN :
          log' = IF then = "close" THEN <<>>
                 ELSE IF Sending(r) /\ delivered /\ ws.connected
                 THEN Append(log, PendingEvent(i, r)) ELSE log
     /\ gh' = [gh EXCEPT !.hit = r.pc, !.stopReq = then,
                         !.roundAtStop = r.round_index,
                         !.doneAtStop = Len(RoundDones(log))]

\* The quantity and concurrent of a start message: the payload's, or the
\* defaults (the session's, when the connection was opened with one).
StartParams(payload) ==
  LET info == GetSession(sessions, ws.session_id, now)
      dq == IF info.present THEN info.quantity ELSE 0
      dc == IF info.present THEN info.concurrent ELSE 1
  IN IF payload = <<>> THEN <<dq, dc>> ELSE payload

\* A valid {"type": "start"} message.
WsStart ==
  /\ ws.pc = "recv"
  /\ ws.runs < MaxStarts
  /\ \E payload \in {client} \cup
                      (IF ws.session_id # "" /\ ws.runs = 0 THEN {<<>>} ELSE {}) :
       LET p == StartParams(payload)
       IN /\ sessions' = IF ws.session_id = "" THEN sessions
                         ELSE GetSessionStore(sessions, now)
          /\ IF MustStop(ws.run_task)
             THEN StopRunBegins("start", p)
             ELSE /\ ws' = Created(ws, p[1], p[2])
                  /\ tasks' = [tasks EXCEPT ![ws.runs + 1] = NewRun(p[1], p[2])]
                  /\ log' = <<>>
                  /\ gh' = FreshHistory(gh)
  /\ UNCHANGED <<now, usedIds, transport, sse, oracle, client, aux>>

\* A {"type": "stop"} message.
WsStop ==
  /\ ws.pc = "recv"
  /\ IF MustStop(ws.run_task)
     THEN StopRunBegins("stop", <<0, 1>>)
     ELSE /\ ws' = [ws EXCEPT !.run_task = 0]
          /\ log' = <<>>
          /\ gh' = FreshHistory(gh)
          /\ UNCHANGED tasks
  /\ UNCHANGED <<now, sessions, usedIds, transport, sse, oracle, client, aux>>

\* receive_text raises WebSocketDisconnect: the handler's `finally`.
WsDisconnect ==
  /\ ws.pc = "recv"
  /\ IF MustStop(ws.run_task)
     THEN StopRunBegins("close", <<0, 1>>) /\ UNCHANGED sessions
     ELSE /\ ws' = Closed(ws)
          /\ sessions' = DropSession(sessions, ws.session_id)
          /\ log' = <<>>
          /\ gh' = FreshHistory(gh)
          /\ UNCHANGED tasks
  /\ UNCHANGED <<now, usedIds, transport, sse, oracle, client, aux>>

\* `await run_task` in _stop_run is over.  A task that returned lets
\* _stop_run return; a task that ended with CancelledError raises it in the
\* handler, where `except Exception` does not catch it: from the message loop
\* it runs the `finally`, from the `finally` it leaves the handler at once.
WsStopReturns ==
  /\ ws.pc = "stop_wait"
  /\ tasks[ws.run_task].pc \in {"done", "cancelled"}
  /\ LET returned == tasks[ws.run_task].pc = "done"
     IN IF returned /\ ws.then = "start"
        THEN /\ ws' = Created(ws, ws.pending[1], ws.pending[2])
             /\ tasks' = [tasks EXCEPT ![ws.runs + 1] =
                            NewRun(ws.pending[1], ws.pending[2])]
             /\ log' = <<>>
             /\ gh' = FreshHistory(gh)
             /\ UNCHANGED sessions
        ELSE IF returned /\ ws.then = "stop"
        THEN /\ ws' = [ws EXCEPT !.pc = "recv", !.run_task = 0,
                                 !.stop_event = FALSE, !.then = ""]
             /\ log' = <<>>
             /\ gh' = FreshHistory(gh)
             /\ UNCHANGED <<tasks, sessions>>
        ELSE /\ ws' = Closed(ws)
             /\ sessions' = IF ~returned /\ ws.then = "close" THEN sessions
                            ELSE DropSession(sessions, ws.session_id)
             /\ log' = <<>>
             /\ gh' = FreshHistory(gh)
             /\ UNCHANGED tasks
  /\ UNCHANGED <<now, usedIds, transport, sse, oracle, client, aux>>

\* ------------------------------------------------------------ SSE handler
\* GET /imagine/sse: by task_id (404 when the session is absent) or with
\* inline parameters behind the public-key check.
\* `from` and `to` say what the client had open before and has afterwards,
\* `run` is the number the stream's generator gets, `tids` the task_ids the
\* client may pass.
SseOpens(from, to, run, tids) ==
  /\ transport = from
  /\ sse.run = 0
  /\ \E tid \in tids, inline \in {client}, keyOk \in BOOLEAN :
       LET info == GetSession(sessions, tid, now)
           p == IF tid = "" THEN inline ELSE <<info.quantity, info.concurrent>>
       IN /\ tid # "" => keyOk
          /\ sessions' = IF tid = "" THEN sessions ELSE GetSessionStore(sessions, now)
          /\ IF (tid # "" /\ info.present) \/ (tid = "" /\ keyOk)
             THEN /\ tasks' = [tasks EXCEPT ![run] = NewRun(p[1], p[2])]
                  /\ sse' = [run |-> run, task_id |-> tid, disconnected |-> FALSE]
                  /\ transport' = to
                  /\ log' = <<>>
                  /\ gh' = FreshHistory(gh)
             ELSE UNCHANGED <<tasks, sse, transport, log, gh>>
  /\ UNCHANGED <<now, usedIds, ws, oracle, client, aux>>

SseOpen ==
  SseOpens("none", "sse", 1, {tid \in SessionIds \cup {""} : ClientUses(tid)})

\* A stream was opened, alone or next to a WebSocket.
SseIsOpen == transport \in {"sse", "shared"} /\ sse.run # 0

\* The client goes away.
SseDisconnect ==
  /\ SseIsOpen
  /\ ~sse.disconnected
  /\ tasks[sse.run].pc \notin Finished
  /\ sse' = [sse EXCEPT !.disconnected = TRUE]
  /\ log' = <<>>
  /\ UNCHANGED <<now, sessions, usedIds, transport, ws, tasks, gh, oracle, client, aux>>

\* The awaits of event_stream inside its try statement.
SseInTry == {"reload", "notoken_sleep", "generate", "chunk"}

\* The response is torn down after a disconnect: CancelledError at the await
\* the generator is suspended in (caught inside the try statement), or the
\* generator is closed at its yield; leaving it runs the `finally`.
SseTeardown ==
  /\ SseIsOpen
  /\ sse.disconnected
  /\ tasks[sse.run].pc \notin Finished \cup {"created"}
  /\ IF tasks[sse.run].pc \in SseInTry
     THEN /\ tasks' = [tasks EXCEPT ![sse.run].pc = "stopped_send",
                                    ![sse.run].data = <<>>]
          /\ UNCHANGED sessions
     ELSE /\ tasks' = [tasks EXCEPT ![sse.run] = Ended("closed")]
          /\ sessions' = DropSession(sessions, sse.task_id)
  /\ gh' = [gh EXCEPT !.hit = tasks[sse.run].pc, !.exit = "disconnect"]
  /\ UNCHANGED <<now, usedIds, transport, ws, sse, log, oracle, client, aux>>

\* ------------------------------------------------------------------- Next
Next ==
  \/ Tick
  \/ StartSession
  \/ StopSessions
  \/ WsOpen
  \/ WsStart
  \/ WsStop
  \/ WsDisconnect
  \/ WsStopReturns
  \/ SseOpen
  \/ SseDisconnect
  \/ SseTeardown
  \/ \E i \in Runs : RunStep(i)

Spec == Init /\ [][Next]_vars

\* ------------------------------------------------- the two transports, paired
\* A WebSocket run (run 1) and then an SSE run with inline parameters (run 2)
\* of the same quantity and concurrent; the SSE run's collaborators answer as
\* the WebSocket run's did (oracle.seq).  Nobody stops, nobody disconnects.
PairInit ==
  /\ now = 0
  /\ sessions = [k \in SessionIds |-> NoSession]
  /\ usedIds = {}
  /\ transport = "pair"
  /\ ws = NoWs
  /\ tasks = [i \in 1..MaxStarts |-> NoRun]
  /\ sse = NoSse
  /\ log = <<>>
  /\ gh = NoHistory
  /\ oracle = NoOracle
  /\ client \in Params
  /\ AuxIdle

\* The WebSocket is opened with the public key and sent a start message.
PairWs ==
  /\ ws.pc = "none"
  /\ ws' = Created([NoWs EXCEPT !.connected = TRUE], client[1], client[2])
  /\ tasks' = [tasks EXCEPT ![1] = NewRun(client[1], client[2])]
  /\ UNCHANGED <<now, sessions, usedIds, transport, sse, log, gh, oracle, client, aux>>

\* The WebSocket run has returned, or has run as far as the model follows it.
RunOver(i) ==
  \/ tasks[i].pc = "done"
  \/ tasks[i].pc = "reload" /\ tasks[i].round_index > MaxRounds + gh.devs

\* The SSE stream is opened with the same parameters; what the WebSocket
\* client was sent is kept for the comparison.
PairSse ==
  /\ sse.run = 0
  /\ ws.run_task = 1
  /\ RunOver(1)
  /\ tasks' = [tasks EXCEPT ![2] = NewRun(client[1], client[2])]
  /\ sse' = [run |-> 2, task_id |-> "", disconnected |-> FALSE]
  /\ oracle' = [oracle EXCEPT !.ref = log]
  /\ log' = <<>>
  /\ gh' = FreshHistory(gh)
  /\ UNCHANGED <<now, sessions, usedIds, transport, ws, client, aux>>

PairNext ==
  \/ PairWs
  \/ PairSse
  \/ \E i \in Runs : RunStep(i)

SpecPair == PairInit /\ [][PairNext]_vars

\* ------------------------------------------- one session, two connections
\* POST /imagine/start has created a session; the client opens a WebSocket
\* with its task_id (one start message, run 1, and no stop message) and an
\* SSE stream (run 2, by the same task_id or with inline parameters), in any
\* order and at once.
SharedParams == {<<1, 1>>}

SharedInit ==
  /\ now = 0
  /\ client \in SharedParams
  /\ sessions = NewSession([k \in SessionIds |-> NoSession], "s1", <<"p">>,
                           "2:3", "null", client[1], client[2], now)
  /\ usedIds = {"s1"}
  /\ transport = "shared"
  /\ ws = NoWs
  /\ tasks = [i \in 1..MaxStarts |-> NoRun]
  /\ sse = NoSse
  /\ log = <<>>
  /\ gh = NoHistory
  /\ oracle = NoOracle
  /\ AuxIdle

SharedWsOpen == WsOpens("shared", "shared")
SharedWsStart == ws.runs = 0 /\ WsStart
SharedSseOpen == SseOpens("shared", "shared", 2, SessionIds \cup {""})

SharedNext ==
  \/ SharedWsOpen
  \/ SharedWsStart
  \/ WsDisconnect
  \/ WsStopReturns
  \/ SharedSseOpen
  \/ SseDisconnect
  \/ SseTeardown
  \/ \E i \in Runs : RunStep(i)

SpecShared == SharedInit /\ [][SharedNext]_vars

\* ------------------------------------------------- the session store, alone
\* POST /imagine/start, POST /imagine/stop and _get_session, called in any
\* order while the clock advances.  Each of them holds
\* _IMAGINE_SESSIONS_LOCK over a section that never suspends, so each is one
\* step.  `call` holds the latest call and its answer, `gh` what each session
\* was created with and which sessions a stop has listed.

StoreIds == {"s1", "s2"}

\* Clock steps that reach an age of exactly TTL and of TTL + 1
StoreSteps == {300, 301}

\* An Optional[int] of a request body: {} for None, {n} for n.
None == {}
Some(n) == {n}
TheInt(v) == CHOOSE n \in v : TRUE

\* str.strip() on a sequence of characters
RECURSIVE StripLeft(_)
StripLeft(str) ==
  IF str # <<>> /\ Head(str) = " " THEN StripLeft(Tail(str)) ELSE str
RECURSIVE StripRight(_)
StripRight(str) ==
  IF str # <<>> /\ str[Len(str)] = " "
  THEN StripRight(SubSeq(str, 1, Len(str) - 1)) ELSE str
Strip(str) == StripRight(StripLeft(str))

\* validators/image.py: the size table and the allowed ratios ("W:H" strings
\* are taken as already trimmed).
SIZE_TO_ASPECT ==
  [size \in {"1280x720", "720x1280", "1792x1024", "1024x1792", "1024x1024"} |->
     CASE size = "1280x720" -> "16:9"
       [] size = "720x1280" -> "9:16"
       [] size = "1792x1024" -> "3:2"
       [] size = "1024x1792" -> "2:3"
       [] size = "1024x1024" -> "1:1"]
ALLOWED_ASPECT_RATIOS == {"1:1", "2:3", "3:2", "9:16", "16:9"}
resolve_aspect_ratio(size) ==
  IF size = "" THEN "2:3"
  ELSE IF size \in DOMAIN SIZE_TO_ASPECT THEN SIZE_TO_ASPECT[size]
  ELSE IF size \in ALLOWED_ASPECT_RATIOS THEN size
  ELSE "2:3"

\* _normalize_quantity / _normalize_concurrent: ok = FALSE for ValueError
NormalizeQuantityUnchecked(value, default) ==
  [ok |-> TRUE, value |-> IF value = None THEN default ELSE TheInt(value)]
NormalizeQuantity(value, default) ==
  IF value = None THEN [ok |-> TRUE, value |-> default]
  ELSE IF TheInt(value) < 0 \/ TheInt(value) > 200
       THEN [ok |-> FALSE, value |-> 0]
       ELSE [ok |-> TRUE, value |-> TheInt(value)]
NormalizeConcurrent(value, default) ==
  IF value = None THEN [ok |-> TRUE, value |-> default]
  ELSE IF TheInt(value) < 1 \/ TheInt(value) > 6
       THEN [ok |-> FALSE, value |-> 0]
       ELSE [ok |-> TRUE, value |-> TheInt(value)]

\* ImagineStartRequest bodies: three valid ones that differ in every field,
\* and one for each way of being invalid.
Body(prompt, aspect_ratio, nsfw, quantity, concurrent) ==
  [prompt |-> prompt, aspect_ratio |-> aspect_ratio, nsfw |-> nsfw,
   quantity |-> quantity, concurrent |-> concurrent]
StartBodies ==
  { Body(<<"p">>, "16:9", "true", Some(2), Some(6)),
    Body(<<" ", "q", " ">>, "1024x1024", "null", None, None),
    Body(<<"q">>, "7:5", "false", Some(200), Some(1)),
    Body(<<>>, "2:3", "null", Some(1), Some(1)),
    Body(<<" ">>, "2:3", "null", Some(1), Some(1)),
    Body(<<"p">>, "2:3", "null", Some(-1), Some(1)),
    Body(<<"p">>, "2:3", "null", Some(201), Some(1)),
    Body(<<"p">>, "2:3", "null", Some(1), Some(0)),
    Body(<<"p">>, "2:3", "null", Some(1), Some(7)) }

\* The id lists of a stop request: up to MaxIds ids, among them the empty
\* string, repeated ids and ids no session was created under.
RECURSIVE Lists(_, _)
Lists(S, n) ==
  IF n = 0 THEN {<<>>}
  ELSE Lists(S, n - 1) \cup {Append(l, x) : l \in {m \in Lists(S, n - 1) : Len(m) = n - 1}, x \in S}
IdLists == Lists(StoreIds \cup {""}, MaxIds)

Range(f) == {f[i] : i \in DOMAIN f}

\* _drop_sessions(task_ids): the loop over the list; the store afterwards and
\* the count returned.  There is no sweep here.
DropOneUnchecked(acc, task_id) ==
  [store |-> IF task_id \in DOMAIN acc.store
             THEN [acc.store EXCEPT ![task_id] = NoSession] ELSE acc.store,
   removed |-> acc.removed + 1]
DropOne(acc, task_id) ==
  IF task_id # "" /\ task_id \in DOMAIN acc.store /\ acc.store[task_id].present
  THEN [store |-> [acc.store EXCEPT ![task_id] = NoSession],
        removed |-> acc.removed + 1]
  ELSE acc
RECURSIVE DropLoop(_, _)
DropLoop(acc, task_ids) ==
  IF task_ids = <<>> THEN acc
  ELSE DropLoop(DropOne(acc, Head(task_ids)), Tail(task_ids))
DropSessionsList(store, task_ids) ==
  DropLoop([store |-> store, removed |-> 0], task_ids)

\* `return dict(info)`: a new dict, not the stored one
CopyAliased(info) == [alias |-> TRUE, value |-> info]
Copy(info) == [alias |-> FALSE, value |-> info]

\* What the orchestrator's variables hold while only the store is exercised.
RunIdle ==
  /\ transport = "none"
  /\ ws = NoWs
  /\ tasks = [i \in 1..MaxStarts |-> NoRun]
  /\ sse = NoSse
  /\ log = <<>>
  /\ oracle = NoOracle
  /\ client = <<0, 1>>
  /\ batch = NoBatch
runVars == <<transport, ws, tasks, sse, log, oracle, client, batch>>

StoreInit ==
  /\ now = 0
  /\ sessions = [k \in StoreIds |-> NoSession]
  /\ usedIds = {}
  /\ gh = [given |-> [k \in StoreIds |-> NoSession], dropped |-> {}]
  /\ call = NoCall
  /\ limiter = NoLimiter
  /\ config = NoConfig
  /\ RunIdle

StoreTick ==
  /\ \E d \in StoreSteps : now + d <= MaxTime /\ now' = now + d
  /\ UNCHANGED <<sessions, usedIds, gh, call, limiter, config, runVars>>

BadRequest(op, body, detail) ==
  [op |-> op, seq |-> call.seq + 1, body |-> body, status |-> 400,
   detail |-> detail]

\* POST /imagine/start
PublicImagineStart ==
  /\ call.seq < MaxCalls
  /\ \E body \in StartBodies :
       LET prompt == Strip(body.prompt)
           ratio == resolve_aspect_ratio(body.aspect_ratio)
           quantity == NormalizeQuantity(body.quantity, 0)
           concurrent == NormalizeConcurrent(body.concurrent, 1)
       IN  IF prompt = <<>>
           THEN /\ call' = BadRequest("start", body, "Prompt cannot be empty")
                /\ UNCHANGED <<sessions, usedIds, gh>>
           ELSE IF ~quantity.ok
           THEN /\ call' = BadRequest("start", body, "quantity must be between 0 and 200")
                /\ UNCHANGED <<sessions, usedIds, gh>>
           ELSE IF ~concurrent.ok
           THEN /\ call' = BadRequest("start", body, "concurrent must be between 1 and 6")
                /\ UNCHANGED <<sessions, usedIds, gh>>
           ELSE \E task_id \in StoreIds \ usedIds :
                  /\ usedIds' = usedIds \cup {task_id}
                  /\ sessions' = NewSession(sessions, task_id, prompt, ratio,
                                            body.nsfw, quantity.value,
                                            concurrent.value, now)
                  /\ gh' = [gh EXCEPT !.given[task_id] =
                              [present |-> TRUE, prompt |-> prompt,
                               aspect_ratio |-> ratio, nsfw |-> body.nsfw,
                               quantity |-> quantity.value,
                               concurrent |-> concurrent.value,
                               created_at |-> now]]
                  /\ call' = [op |-> "start", seq |-> call.seq + 1,
                              body |-> body, status |-> 200,
                              task_id |-> task_id, aspect_ratio |-> ratio,
                              quantity |-> quantity.value,
                              concurrent |-> concurrent.value]
  /\ UNCHANGED <<now, limiter, config, runVars>>

\* POST /imagine/stop
PublicImagineStop ==
  /\ call.seq < MaxCalls
  /\ \E task_ids \in IdLists :
       LET dropped == DropSessionsList(sessions, task_ids)
       IN  /\ sessions' = dropped.store
           /\ gh' = [gh EXCEPT !.dropped = @ \cup (Range(task_ids) \cap usedIds)]
           /\ call' = [op |-> "stop", seq |-> call.seq + 1,
                       task_ids |-> task_ids, status |-> 200,
                       result |-> "success", removed |-> dropped.removed]
  /\ UNCHANGED <<now, usedIds, limiter, config, runVars>>

\* _get_session(task_id), as the two endpoints call it
GetSessionCall ==
  /\ call.seq < MaxCalls
  /\ \E task_id \in StoreIds \cup {""} :
       LET info == GetSession(sessions, task_id, now)
       IN  /\ sessions' = IF task_id = "" THEN sessions
                          ELSE GetSessionStore(sessions, now)
           /\ call' = [op |-> "get", seq |-> call.seq + 1, task_id |-> task_id,
                       found |-> info.present, copy |-> Copy(info),
                       mutated |-> FALSE]
  /\ UNCHANGED <<now, usedIds, gh, limiter, config, runVars>>

\* The caller writes into the dict it was given.
MutateCopy ==
  /\ call.op = "get" /\ call.found /\ ~call.mutated
  /\ call' = [call EXCEPT !.mutated = TRUE, !.copy.value.quantity = -1]
  /\ sessions' = IF call.copy.alias /\ sessions[call.task_id].present
                 THEN [sessions EXCEPT ![call.task_id].quantity = -1]
                 ELSE sessions
  /\ UNCHANGED <<now, usedIds, gh, limiter, config, runVars>>

StoreNext ==
  \/ StoreTick
  \/ PublicImagineStart
  \/ PublicImagineStop
  \/ GetSessionCall
  \/ MutateCopy

SpecStore == StoreInit /\ [][StoreNext]_vars

\* ---------------------------------------------------------- the rate limiter
\* core/rate_limit_middleware.py.  Time is counted in ticks, TicksPerSecond to
\* the second, so that a retry_after need not be a whole number of seconds.
\* Paths, prefixes and rule patterns are sequences of characters.

\* A value of the configuration: an integer, null, or text that is no number.
Num(n) == [t |-> "int", v |-> n]
Null == [t |-> "null", v |-> 0]
Text == [t |-> "text", v |-> 0]

\* _to_int(value, default), and _to_float for a number of ticks
ToInt(value, default) == IF value.t = "int" THEN value.v ELSE default

StartsWith(str, prefix) ==
  Len(prefix) <= Len(str) /\ SubSeq(str, 1, Len(prefix)) = prefix

\* _resolve_path_limit: route_limits is the dict as the sequence of its items
\* <<pattern, value>>.
Lookup(route_limits, path) ==
  IF \E j \in DOMAIN route_limits : route_limits[j][1] = path
  THEN route_limits[CHOOSE j \in DOMAIN route_limits : route_limits[j][1] = path][2]
  ELSE Null

IsWildcard(pattern) == pattern # <<>> /\ pattern[Len(pattern)] = "*"
PrefixOf(pattern) == SubSeq(pattern, 1, Len(pattern) - 1)

BestShortest(best, item, path) ==
  IF IsWildcard(item[1]) /\ StartsWith(path, PrefixOf(item[1]))
     /\ (best.len = -1 \/ Len(PrefixOf(item[1])) < best.len)
  THEN [len |-> Len(PrefixOf(item[1])), value |-> item[2]]
  ELSE best
Best(best, item, path) ==
  IF IsWildcard(item[1]) /\ StartsWith(path, PrefixOf(item[1]))
     /\ Len(PrefixOf(item[1])) > best.len
  THEN [len |-> Len(PrefixOf(item[1])), value |-> item[2]]
  ELSE best

RECURSIVE BestLoop(_, _, _)
BestLoop(best, items, path) ==
  IF items = <<>> THEN best
  ELSE BestLoop(Best(best, Head(items), path), Tail(items), path)

ResolvePathLimit(path, route_limits, default_limit) ==
  LET exact == Lookup(route_limits, path)
      best == BestLoop([len |-> -1, value |-> Null], route_limits, path)
  IN  IF exact # Null THEN Max(0, ToInt(exact, default_limit))
      ELSE IF best.value = Null THEN default_limit
      ELSE Max(0, ToInt(best.value, default_limit))

\* `while bucket and bucket[0] <= cutoff: bucket.popleft()`
EvictAll(bucket, cutoff) == <<>>
EvictNone(bucket, cutoff) == bucket
RECURSIVE Evict(_, _)
Evict(bucket, cutoff) ==
  IF bucket # <<>> /\ Head(bucket) <= cutoff THEN Evict(Tail(bucket), cutoff)
  ELSE bucket

\* The lazy clean-up once the dict holds more than 20000 keys
StaleKeys(buckets, stale_cutoff) ==
  {k \in DOMAIN buckets :
     buckets[k] = <<>> \/ buckets[k][Len(buckets[k])] < stale_cutoff}

\* A clean-up that runs at every admission and drops every key not admitted
\* at this very instant.
CleanedEagerly(buckets, strangers, t, window) ==
  [k \in DOMAIN buckets \ StaleKeys(buckets, t) |-> buckets[k]]

Cleaned(buckets, strangers, t, window) ==
  IF Cardinality(DOMAIN buckets) + strangers > 20000
  THEN [k \in DOMAIN buckets \ StaleKeys(buckets, t - window * 2) |-> buckets[k]]
  ELSE buckets

\* _SlidingWindowLimiter.allow(key, limit, window_seconds) at time t: the
\* dict afterwards and the pair returned.  The lock is free whenever it is
\* asked for (no holder suspends), so the call is one step.
AllowAppending(buckets, strangers, key, limit, window, t) ==
  LET bucket == IF key \in DOMAIN buckets THEN buckets[key] ELSE <<>>
      kept == Evict(bucket, t - window)
  IN  IF Len(kept) >= limit
      THEN [buckets |-> (key :> Append(kept, t)) @@ buckets, allowed |-> FALSE,
            retry_after |-> Max(0, window - (t - kept[1]))]
      ELSE [buckets |-> Cleaned((key :> Append(kept, t)) @@ buckets,
                                strangers, t, window),
            allowed |-> TRUE, retry_after |-> 0]
Allow(buckets, strangers, key, limit, window, t) ==
  LET bucket == IF key \in DOMAIN buckets THEN buckets[key] ELSE <<>>
      kept == Evict(bucket, t - window)
  IN  IF Len(kept) >= limit
      THEN [buckets |-> (key :> kept) @@ buckets, allowed |-> FALSE,
            retry_after |-> Max(0, window - (t - kept[1]))]
      ELSE [buckets |-> Cleaned((key :> Append(kept, t)) @@ buckets,
                                strangers, t, window),
            allowed |-> TRUE, retry_after |-> 0]

\* int(math.ceil(retry_after)) for a retry_after in ticks: whole seconds
FloorSeconds(ticks) == ticks \div TicksPerSecond
CeilSeconds(ticks) == (ticks + TicksPerSecond - 1) \div TicksPerSecond

\* Paths are written in pieces: "v" for /v1/, "c" and "i" for the names of
\* two routes, "a" for admin, "f" for files, "s" for /static/, "h" for a path
\* outside /v1/.
DEFAULT_INCLUDE_PREFIXES == << <<"v">> >>
NoPrefixes == <<>>
DEFAULT_EXCLUDE_PREFIXES == << <<"v", "a">>, <<"v", "f">>, <<"s">> >>

\* _as_list(value, default) for a list of prefixes
AsList(value, default) == IF value = <<>> THEN default ELSE value

Paths == {<<"v", "c">>, <<"v", "c", "c">>, <<"v", "i">>, <<"v", "a">>, <<"h">>}
Clients == {"ak:1", "ip:1"}

Request(method, path, client_key) ==
  [method |-> method, path |-> path, client |-> client_key]
Requests ==
  {Request("GET", path, client_key) : path \in Paths, client_key \in Clients}
    \cup {Request("OPTIONS", <<"v", "c">>, "ak:1")}

\* f"{request.method}:{path}:{client_key}"
BucketKey(rq) == <<rq.method, rq.path, rq.client>>
BucketKeys == {BucketKey(rq) : rq \in Requests}

\* rate_limit.route_limits, as the configurations of the model have it
RouteLimits ==
  { <<>>,
    << <<<<"v", "c">>, Num(1)>>, <<<<"v", "*">>, Num(2)>> >>,
    << <<<<"v", "*">>, Num(2)>>, <<<<"v", "c", "*">>, Num(1)>>, <<<<"*">>, Num(0)>> >>,
    << <<<<"v", "c", "*">>, Num(1)>>, <<<<"v", "*">>, Num(2)>> >>,
    << <<<<"v", "c", "*">>, Num(-1)>>, <<<<"v", "i">>, Num(0)>> >>,
    << <<<<"v", "c">>, Null>>, <<<<"v", "*">>, Text>>, <<<<"v", "c", "*">>, Num(1)>> >> }

Config(enabled, production, in_production, default_limit, window, route_limits) ==
  [enabled |-> enabled, production |-> production,
   enabled_in_production |-> in_production,
   include_prefixes |-> <<>>, exclude_prefixes |-> <<>>,
   default_limit_per_window |-> default_limit, window |-> window,
   route_limits |-> route_limits]

\* The configurations a limit is resolved under: the limiter switched on with
\* every rule set, a default of 2 or of 0 (raised to 1), a window of one tick
\* (raised to a second) or of a second and a half; and the switch thrown by
\* the production environment.
Configs ==
  {Config(TRUE, FALSE, TRUE, d, Num(w), l) :
     d \in {Num(2), Num(0)}, w \in {1, TicksPerSecond + 1}, l \in RouteLimits}
    \cup {Config(FALSE, FALSE, TRUE, Num(2), Num(TicksPerSecond), <<>>),
          Config(FALSE, TRUE, TRUE, Text, Text, <<>>),
          Config(FALSE, TRUE, FALSE, Num(2), Num(TicksPerSecond), <<>>)}

\* The configurations requests are counted under: /v1/c limited to 1, the
\* rest of /v1/ to 2, per window of a second or of a second and a half.
LimiterConfigs ==
  {Config(TRUE, FALSE, TRUE, Num(2), Num(w),
          << <<<<"v", "c">>, Num(1)>>, <<<<"v", "*">>, Num(2)>> >>) :
     w \in {1, TicksPerSecond + 1}}

LimiterRequests ==
  {Request("GET", <<"v", "c">>, "ak:1"), Request("GET", <<"v", "c">>, "ip:1"),
   Request("GET", <<"v", "i">>, "ak:1"), Request("GET", <<"h">>, "ak:1"),
   Request("OPTIONS", <<"v", "c">>, "ak:1")}

\* What each key was admitted at (never trimmed), until when its latest
\* rejection, not followed by an admission, said to wait (-1: none), and how
\* long after that time the latest admission came (-1: it followed no
\* rejection).
NoLimiterHistory ==
  [admitted |-> [k \in BucketKeys |-> <<>>], until |-> [k \in BucketKeys |-> -1],
   late |-> -1]

\* dispatch's default_limit, window_seconds (in ticks) and limit
DefaultLimit == Max(1, ToInt(config.default_limit_per_window, 120))
WindowTicks == Max(TicksPerSecond, ToInt(config.window, 60 * TicksPerSecond))
LimitOf(path) == ResolvePathLimit(path, config.route_limits, DefaultLimit)

LimiterInits(configs) ==
  /\ config \in configs
  /\ limiter \in {[NoLimiter EXCEPT !.strangers = n] : n \in {0, 20000}}
  /\ call = NoCall
  /\ gh = NoLimiterHistory
  /\ now = 0
  /\ sessions = [k \in SessionIds |-> NoSession]
  /\ usedIds = {}
  /\ RunIdle

\* time.monotonic() advances.
MonoTick ==
  /\ limiter.monotonic < MaxMono
  /\ limiter' = [limiter EXCEPT !.monotonic = @ + 1]
  /\ UNCHANGED <<now, sessions, usedIds, gh, call, config, runVars>>

Forwarded(rq, governed, limit) ==
  [op |-> "dispatch", seq |-> call.seq + 1, request |-> rq,
   governed |-> governed, limit |-> limit, asked |-> FALSE, allowed |-> TRUE,
   retry_after |-> 0, forwarded |-> TRUE, status |-> 200, header |-> 0,
   code |-> ""]

\* RequestRateLimitMiddleware.dispatch, up to call_next or the 429 response
DispatchOf(requests) ==
  /\ call.seq < MaxRequests
  /\ \E rq \in requests :
       LET enabled == config.enabled
                        \/ (config.production /\ config.enabled_in_production)
           include == AsList(config.include_prefixes, DEFAULT_INCLUDE_PREFIXES)
           exclude == AsList(config.exclude_prefixes, DEFAULT_EXCLUDE_PREFIXES)
           governed ==
             /\ rq.method # "OPTIONS"
             /\ enabled
             /\ \E j \in DOMAIN include : StartsWith(rq.path, include[j])
             /\ ~\E j \in DOMAIN exclude : StartsWith(rq.path, exclude[j])
           limit == LimitOf(rq.path)
           key == BucketKey(rq)
           r == Allow(limiter.buckets, limiter.strangers, key, limit,
                      WindowTicks, limiter.monotonic)
       IN  IF ~governed
           THEN /\ call' = Forwarded(rq, FALSE, 0)
                /\ UNCHANGED <<limiter, gh>>
           ELSE IF limit <= 0
           THEN /\ call' = Forwarded(rq, TRUE, limit)
                /\ UNCHANGED <<limiter, gh>>
           ELSE /\ limiter' = [limiter EXCEPT !.buckets = r.buckets]
                /\ IF r.allowed
                   THEN /\ call' = [Forwarded(rq, TRUE, limit) EXCEPT !.asked = TRUE]
                        /\ gh' = [gh EXCEPT
                                    !.admitted[key] = Append(@, limiter.monotonic),
                                    !.until[key] = -1,
                                    !.late = IF gh.until[key] = -1 THEN -1
                                             ELSE limiter.monotonic - gh.until[key]]
                   ELSE /\ call' = [Forwarded(rq, TRUE, limit) EXCEPT
                                      !.asked = TRUE, !.allowed = FALSE,
                                      !.retry_after = r.retry_after,
                                      !.forwarded = FALSE, !.status = 429,
                                      !.header = Max(1, CeilSeconds(r.retry_after)),
                                      !.code = "rate_limit_exceeded"]
                        /\ gh' = [gh EXCEPT !.until[key] =
                                    limiter.monotonic + r.retry_after]
  /\ UNCHANGED <<now, sessions, usedIds, config, runVars>>

Dispatch == DispatchOf(LimiterRequests)

LimiterInit == LimiterInits(LimiterConfigs)
LimiterNext == MonoTick \/ Dispatch

SpecLimiter == LimiterInit /\ [][LimiterNext]_vars

\* ------------------------------------------------- the limit of one request
\* One request of any kind under any of the configurations.
ResolveInit == LimiterInits(Configs)
ResolveDispatch == call.seq = 0 /\ DispatchOf(Requests)
ResolveNext == MonoTick \/ ResolveDispatch

SpecResolve == ResolveInit /\ [][ResolveNext]_vars

\* --------------------------------------------- requests the limiter lets by
\* /v1/c limited to 1 and /v1/i to 0 (not limited), with the limiter switched
\* on, switched off, and switched off by the production environment.
FrameLimits == << <<<<"v", "c">>, Num(1)>>, <<<<"v", "i">>, Num(0)>> >>
FrameConfigs ==
  {Config(TRUE, FALSE, TRUE, Num(2), Num(TicksPerSecond), FrameLimits),
   Config(FALSE, FALSE, TRUE, Num(2), Num(TicksPerSecond), FrameLimits),
   Config(FALSE, TRUE, FALSE, Num(2), Num(TicksPerSecond), FrameLimits)}
FrameRequests ==
  {Request("GET", <<"v", "c">>, "ak:1"), Request("GET", <<"v", "i">>, "ak:1"),
   Request("GET", <<"v", "a">>, "ak:1"), Request("GET", <<"h">>, "ak:1"),
   Request("OPTIONS", <<"v", "c">>, "ak:1")}

FrameInit == LimiterInits(FrameConfigs)
FrameDispatch == DispatchOf(FrameRequests)
FrameNext == MonoTick \/ FrameDispatch

SpecFrame == FrameInit /\ [][FrameNext]_vars

\* ========================================================== the batch tasks
\* app/core/batch.py (create_task, get_task, expire_task and the task class) is
\* not part of the sources at hand: the registry and the task are modelled from
\* the specification's section 4.1, the job and the endpoints from token.py.
MaxTotal == 1
MaxPings == 1
MaxBatchTime == 300
EXPIRE_AFTER == 300
BatchSteps == {299, 300}
TaskIds == {"t1"}
UnknownIds == {"t0"}
Listeners == {1, 2}
Outcomes == {"ok", "fail"}
TerminalStates == {"done", "error", "cancelled"}

\* create(total): running, zero counters, no subscriber.
NewTask(id, total) ==
  [id |-> id, total |-> total, completed_ok |-> 0, completed_fail |-> 0,
   state |-> "running", result |-> None, cancel_requested |-> FALSE,
   subscribers |-> {}, final |-> None]

NoJob == [pc |-> "none", raw |-> <<>>]
NoExpiry == [pc |-> "none", deadline |-> 0]
NoStream == [pc |-> "idle", status |-> 0, out |-> <<>>, pings |-> 0]

IdleBatch ==
  [registry |-> {}, task |-> NewTask("", 0), queues |-> [c \in Listeners |-> <<>>],
   job |-> NoJob, expiry |-> NoExpiry, streams |-> [l \in Listeners |-> NoStream],
   start_status |-> 0, cancel_status |-> 0]

NoBatchHistory == [terminal_at |-> None, removed_at |-> None, hung_up |-> {}, broadcasts |-> <<>>]

\* ------------------------------------------------------------ the registry
create_task(b, id, total) ==
  [b EXCEPT !.registry = @ \cup {id}, !.task = NewTask(id, total)]

get_task(b, id) == IF id \in b.registry THEN Some(b.task) ELSE None

\* attach: a new, empty channel joins the subscribers.
attach(b, c) == [b EXCEPT !.task.subscribers = @ \cup {c}, !.queues[c] = <<>>]

\* detach: no error if already detached.
detach(b, c) == [b EXCEPT !.task.subscribers = @ \ {c}]

record(b, ok) ==
  IF ok THEN [b EXCEPT !.task.completed_ok = @ + 1]
        ELSE [b EXCEPT !.task.completed_fail = @ + 1]

snapshot(task) ==
  [type |-> "snapshot", completed_ok |-> task.completed_ok,
   completed_fail |-> task.completed_fail, total |-> task.total, state |-> task.state]

\* Every broadcast goes to the subscribers of the moment; nothing is replayed.
broadcast(b, event) ==
  [b EXCEPT !.queues = [c \in DOMAIN @ |->
                          IF c \in b.task.subscribers THEN Append(@[c], event) ELSE @[c]]]

\* The terminal transition: the state, the cached payload, the broadcast.
terminate(b, state, event) ==
  IF b.task.state # "running" THEN b
  ELSE broadcast([b EXCEPT !.task.state = state, !.task.final = Some(event)], event)

finish(b, result, warning) ==
  terminate([b EXCEPT !.task.result = IF b.task.state = "running" THEN Some(result) ELSE @],
            "done", [type |-> "done", result |-> result, warning |-> warning])

finish_cancelled(b) ==
  IF b.task.cancel_requested THEN terminate(b, "cancelled", [type |-> "cancelled"]) ELSE b

fail_task(b, message) == terminate(b, "error", [type |-> "error", error |-> message])

cancel(b) == [b EXCEPT !.task.cancel_requested = TRUE]

final_event(task) == task.final

\* --------------------------------------------------------------- the job
batchFrame == <<sessions, usedIds, transport, ws, tasks, sse, log, oracle, client,
                limiter, call, config>>

Tally(raw, outcome) == Cardinality({k \in 1..Len(raw) : raw[k] = outcome})

\* The result the job builds from the raw results.
ResultOf(total, raw) ==
  [status |-> "success", total |-> total, ok |-> Tally(raw, "ok"), fail |-> Tally(raw, "fail")]

\* A step of the job or of an endpoint; the history notes the terminal instant.
BatchStep(b) ==
  /\ batch' = b
  /\ gh' = [gh EXCEPT !.terminal_at =
              IF @ = None /\ b.task.state \in TerminalStates
              THEN Some(now) ELSE @]
  /\ UNCHANGED <<now, batchFrame>>

\* finally: the expiry of the task is scheduled.
RunFinallyNow(b) ==
  [b EXCEPT !.job.pc = "returned", !.expiry = [pc |-> "sleeping", deadline |-> now]]
RunFinally(b) ==
  [b EXCEPT !.job.pc = "returned",
            !.expiry = [pc |-> "sleeping", deadline |-> now + EXPIRE_AFTER]]

\* POST /tokens/refresh/async and POST /tokens/nsfw/enable/async
BatchStart ==
  /\ batch.job.pc = "none"
  /\ \E total \in 0..MaxTotal, id \in TaskIds :
       IF total = 0
       THEN BatchStep([batch EXCEPT !.start_status = 400])
       ELSE BatchStep([create_task(batch, id, total) EXCEPT
                         !.job.pc = "scheduled", !.start_status = 200])

\* _run starts and awaits the service's batch.
RunBegins ==
  /\ batch.job.pc = "scheduled"
  /\ BatchStep([batch EXCEPT !.job.pc = "batch"])

\* _on_item: one token was handled.
OnItem ==
  /\ batch.job.pc = "batch"
  /\ Len(batch.job.raw) < batch.task.total
  /\ \E o \in Outcomes :
       BatchStep([record(batch, o = "ok") EXCEPT !.job.raw = Append(@, o)])

\* The service's batch returns: every token handled, or should_cancel answered.
BatchReturnsIgnoringCancel ==
  /\ batch.job.pc = "batch"
  /\ Len(batch.job.raw) = batch.task.total \/ batch.task.cancel_requested
  /\ BatchStep([batch EXCEPT !.job.pc = "save"])
BatchReturns ==
  /\ batch.job.pc = "batch"
  /\ Len(batch.job.raw) = batch.task.total \/ batch.task.cancel_requested
  /\ IF batch.task.cancel_requested
     THEN BatchStep(RunFinally(finish_cancelled(batch)))
     ELSE BatchStep([batch EXCEPT !.job.pc = "save"])

\* mgr._save returns: the result is built and the task finishes.
SaveReturns ==
  /\ batch.job.pc = "save"
  /\ BatchStep(RunFinally(finish(batch, ResultOf(batch.task.total, batch.job.raw), "none")))

\* except Exception: the service's batch, _on_item or mgr._save raised.
RunRaisesUncaught(message) == BatchStep(RunFinally(batch))
RunRaises(message) == BatchStep(RunFinally(fail_task(batch, message)))

BatchRaises == batch.job.pc = "batch" /\ RunRaises("batch failed")
SaveRaises == batch.job.pc = "save" /\ RunRaises("save failed")

\* expire_task: sleeps, then takes the task out of the registry.
ExpireDue == batch.expiry.pc = "sleeping" /\ now >= batch.expiry.deadline
ExpireTask ==
  /\ ExpireDue
  /\ batch' = [batch EXCEPT !.registry = @ \ {batch.task.id}, !.expiry.pc = "done"]
  /\ gh' = [gh EXCEPT !.removed_at = Some(now)]
  /\ UNCHANGED <<now, batchFrame>>

BatchTick ==
  /\ batch.expiry.pc = "sleeping"
  /\ \E d \in BatchSteps : now + d <= MaxBatchTime /\ now' = now + d
  /\ UNCHANGED <<batch, gh, batchFrame>>

\* POST /batch/{task_id}/cancel
BatchCancelFinishes(id) ==
  IF get_task(batch, id) = None
  THEN BatchStep([batch EXCEPT !.cancel_status = 404])
  ELSE BatchStep([finish_cancelled(cancel(batch)) EXCEPT !.cancel_status = 200])
BatchCancelEnds(id) ==
  IF get_task(batch, id) = None
  THEN BatchStep([batch EXCEPT !.cancel_status = 404])
  ELSE BatchStep([cancel(batch) EXCEPT !.task.state = "cancelled", !.cancel_status = 200])
BatchCancel(id) ==
  IF get_task(batch, id) = None
  THEN BatchStep([batch EXCEPT !.cancel_status = 404])
  ELSE BatchStep([cancel(batch) EXCEPT !.cancel_status = 200])

\* ------------------------------------------- GET /batch/{task_id}/stream
Ping == [type |-> "ping"]
Yield(b, l, item, pc) ==
  [b EXCEPT !.streams[l].out = Append(@, item), !.streams[l].pc = pc]

\* finally: task.detach(queue)
StreamFinallyAttached(b, l) == [b EXCEPT !.streams[l].pc = "closed"]
StreamFinallyCancels(b, l) == [cancel(detach(b, l)) EXCEPT !.streams[l].pc = "closed"]
StreamFinally(b, l) == [detach(b, l) EXCEPT !.streams[l].pc = "closed"]

\* get_task, 404 if the task is unknown, else the streaming response.
StreamOpen(l, id) ==
  /\ batch.streams[l].pc = "idle"
  /\ IF get_task(batch, id) = None
     THEN BatchStep([batch EXCEPT !.streams[l].status = 404])
     ELSE BatchStep([batch EXCEPT !.streams[l].pc = "opened", !.streams[l].status = 200])

\* queue = task.attach(); yield the snapshot.
StreamStart(l) ==
  /\ batch.streams[l].pc = "opened"
  /\ BatchStep(Yield(attach(batch, l), l, snapshot(batch.task), "snapshot"))

\* final = task.final_event(); if final: yield final, else the loop goes on.
FinalCheckSkipped(b, l) == [b EXCEPT !.streams[l].pc = "wait"]
FinalCheck(b, l) ==
  IF final_event(b.task) # None
  THEN Yield(b, l, TheInt(final_event(b.task)), "final")
  ELSE [b EXCEPT !.streams[l].pc = "wait"]

AfterSnapshot(l) ==
  /\ batch.streams[l].pc = "snapshot"
  /\ BatchStep(FinalCheck(batch, l))

\* The cached terminal event was yielded: return.
AfterFinal(l) ==
  /\ batch.streams[l].pc = "final"
  /\ BatchStep(StreamFinally(batch, l))

\* asyncio.wait_for(queue.get(), timeout=15) returns an event: yield it.
StreamGet(l) ==
  /\ batch.streams[l].pc = "wait"
  /\ batch.queues[l] # <<>>
  /\ BatchStep(Yield([batch EXCEPT !.queues[l] = Tail(@)], l, Head(batch.queues[l]), "event"))

\* asyncio.TimeoutError: yield a ping.
StreamTimeout(l) ==
  /\ batch.streams[l].pc = "wait"
  /\ batch.queues[l] = <<>>
  /\ batch.streams[l].pings < MaxPings
  /\ BatchStep(Yield([batch EXCEPT !.streams[l].pings = @ + 1], l, Ping, "ping"))

AfterPing(l) ==
  /\ batch.streams[l].pc = "ping"
  /\ BatchStep(FinalCheck(batch, l))

\* if event.get("type") in ("done", "error", "cancelled"): return
Last(l) == l[Len(l)]
AfterEventGoesOn(l) ==
  /\ batch.streams[l].pc = "event"
  /\ BatchStep([batch EXCEPT !.streams[l].pc = "wait"])
AfterEvent(l) ==
  /\ batch.streams[l].pc = "event"
  /\ IF Last(batch.streams[l].out).type \in TerminalStates
     THEN BatchStep(StreamFinally(batch, l))
     ELSE BatchStep([batch EXCEPT !.streams[l].pc = "wait"])

\* The client hangs up: the generator is closed where it is suspended.
StreamDisconnect(l) ==
  /\ batch.streams[l].pc \in {"opened", "snapshot", "wait", "ping", "event", "final"}
  /\ batch' = IF batch.streams[l].pc = "opened"
              THEN [batch EXCEPT !.streams[l].pc = "closed"]
              ELSE StreamFinally(batch, l)
  /\ gh' = [gh EXCEPT !.hung_up = @ \cup {l}]
  /\ UNCHANGED <<now, batchFrame>>

BatchInit ==
  /\ now = 0
  /\ batch = IdleBatch
  /\ gh = NoBatchHistory
  /\ sessions = [k \in SessionIds |-> NoSession]
  /\ usedIds = {}
  /\ transport = "none"
  /\ ws = NoWs
  /\ tasks = [i \in 1..MaxStarts |-> NoRun]
  /\ sse = NoSse
  /\ log = <<>>
  /\ oracle = NoOracle
  /\ client = <<0, 1>>
  /\ limiter = NoLimiter
  /\ call = NoCall
  /\ config = NoConfig

\* The steps of the generator of one response.
StreamRuns(l) ==
  \/ StreamStart(l)
  \/ AfterSnapshot(l)
  \/ AfterFinal(l)
  \/ StreamGet(l)
  \/ StreamTimeout(l)
  \/ AfterPing(l)
  \/ AfterEvent(l)

BatchNext ==
  \/ BatchStart
  \/ RunBegins
  \/ OnItem
  \/ BatchReturns
  \/ SaveReturns
  \/ BatchRaises
  \/ SaveRaises
  \/ ExpireTask
  \/ BatchTick
  \/ \E id \in TaskIds \cup UnknownIds : BatchCancel(id)
  \/ \E l \in Listeners, id \in TaskIds \cup UnknownIds : StreamOpen(l, id)
  \/ \E l \in Listeners : StreamRuns(l)
  \/ \E l \in Listeners : StreamDisconnect(l)

SpecBatch == BatchInit /\ [][BatchNext]_vars

\* The event loop runs every coroutine that can go on, and a wait times out.
SpecBatchLive ==
  /\ SpecBatch
  /\ \A l \in Listeners : WF_vars(StreamRuns(l))

\* ------------------------------------------- WebSocket control messages
\* A text frame as the handler reads it: `json` says what orjson.loads makes
\* of it ("garbage" raises, "array" is valid JSON that is no object), the
\* other fields are the object's keys.
Frame(json, type, prompt, quantity, concurrent) ==
  [json |-> json, type |-> type, prompt |-> prompt, quantity |-> quantity,
   concurrent |-> concurrent]

Frames ==
  {Frame(j, "", <<>>, None, None) : j \in {"garbage", "array"}}
    \cup {Frame("object", t, <<>>, None, None) : t \in {"", "other", "stop"}}
    \cup {Frame("object", "start", p, q, c) :
            p \in {<<>>, <<" ">>, <<"p">>},
            q \in {None, Some(0 - 1), Some(1), Some(201)},
            c \in {None, Some(0), Some(1), Some(7)}}

\* What the message loop does with a frame: the code of the error event it
\* sends, "start" or "stop" for a valid control message, "AttributeError"
\* where `payload.get` is called on a value that has no such method.
Handled(f, dq, dc) ==
  IF f.json = "garbage" THEN "invalid_payload"
  ELSE IF f.json # "object" THEN "AttributeError"
  ELSE IF f.type = "start"
  THEN IF Strip(f.prompt) = <<>> THEN "invalid_prompt"
       ELSE IF ~NormalizeQuantity(f.quantity, dq).ok THEN "invalid_quantity"
       ELSE IF ~NormalizeConcurrent(f.concurrent, dc).ok THEN "invalid_concurrent"
       ELSE "start"
  ELSE IF f.type = "stop" THEN "stop"
  ELSE "invalid_action"

\* Invalid frames one run's client is sent an answer to.
MaxInvalid == 1

\* The handler sends one event of its own (run 0 in the log).
HandlerSends(code) == IF ws.connected THEN Append(log, EvError(0, code)) ELSE log

\* The events the handler itself has sent to the client of the current run.
HandlerEvents == {k \in 1..Len(log) : log[k].run = 0}

\* A frame that is neither a valid start nor a valid stop is received.  An
\* error event is sent and the loop goes on; the AttributeError leaves the
\* loop for `except Exception` and the handler's `finally`, as a disconnect
\* does.
WsReceive(f) ==
  LET d == StartParams(<<>>)
      h == Handled(f, d[1], d[2])
  IN /\ ws.pc = "recv"
     /\ h \notin {"start", "stop"}
     /\ IF h = "AttributeError" THEN WsDisconnect
        ELSE /\ Cardinality(HandlerEvents) < MaxInvalid
             /\ log' = HandlerSends(h)
             /\ sessions' = IF ws.session_id # ""
                               /\ h \in {"invalid_quantity", "invalid_concurrent"}
                            THEN GetSessionStore(sessions, now) ELSE sessions
             /\ UNCHANGED <<now, usedIds, transport, ws, tasks, sse, gh, oracle,
                            client, aux>>

\* One WebSocket opened with the public key; the client sends valid and
\* invalid frames in any order while its runs go on.
MessageParams == {<<1, 1>>}

MessageInit ==
  /\ now = 0
  /\ sessions = [k \in SessionIds |-> NoSession]
  /\ usedIds = {}
  /\ transport = "messages"
  /\ ws = NoWs
  /\ tasks = [i \in 1..MaxStarts |-> NoRun]
  /\ sse = NoSse
  /\ log = <<>>
  /\ gh = NoHistory
  /\ oracle = NoOracle
  /\ client \in MessageParams
  /\ AuxIdle

MessageWsOpen == WsOpens("messages", "messages")

WsRunStep(i) ==
  \/ Begin(i) \/ SendModelError(i) \/ SendRunning(i)
  \/ ReloadReturn(i) \/ SendNoToken(i) \/ WakeNoToken(i)
  \/ GenerateReturn(i) \/ NextChunk(i) \/ SendChunk(i) \/ SendImage(i)
  \/ SendEmpty(i) \/ SendRoundDone(i) \/ SendInternalError(i) \/ WakeError(i)
  \/ SendStopped(i)

MessageNext ==
  \/ MessageWsOpen
  \/ WsStart
  \/ WsStop
  \/ WsDisconnect
  \/ \E f \in Frames : WsReceive(f)
  \/ WsStopReturns
  \/ \E i \in Runs : WsRunStep(i)

SpecMessages == MessageInit /\ [][MessageNext]_vars

\* ------------------------------------------- admission of the connections
\* The two imagine transports and the endpoints that create and stop
\* sessions, with the public-key check as the code makes it.  `config` holds
\* app.public_key ("" when none is configured) and app.public_enabled, a
\* client presents no key (""), the configured key or another one.  `gh`
\* holds when and by whom each session was created, which were stopped, and
\* what each connection presented when it was opened.
PublicKeys == {"", "k"}
PresentedKeys == {"", "k", "x"}
CreatedIds == {"s1"}
StrangerIds == {"s0"}
TaskIdParams == CreatedIds \cup StrangerIds \cup {""}

AdmitConfigs ==
  {[public_key |-> pk, public_enabled |-> pe] : pk \in PublicKeys, pe \in BOOLEAN}

\* A check that lets everybody in.
PublicKeyAny(key) == TRUE

\* verify_public_key and the same test inlined in the two handlers: with no
\* key configured public_enabled decides, otherwise the key must be the
\* configured one.
PublicKeyOk(key) ==
  IF config.public_key = "" THEN config.public_enabled
  ELSE key # "" /\ key = config.public_key

NoAttempt == [made |-> FALSE, task_id |-> "", key |-> "", at |-> 0, stopped |-> {}]
Attempt(task_id, key) ==
  [made |-> TRUE, task_id |-> task_id, key |-> key, at |-> now,
   stopped |-> gh.stopped]

NoAdmissions ==
  [created |-> [k \in CreatedIds |-> None], creator |-> [k \in CreatedIds |-> ""],
   stopped |-> {}, ws |-> NoAttempt, sse |-> NoAttempt]

AdmitInit ==
  /\ now = 0
  /\ config \in AdmitConfigs
  /\ sessions = [k \in CreatedIds \cup StrangerIds |-> NoSession]
  /\ usedIds = {}
  /\ transport = "admission"
  /\ ws = NoWs
  /\ tasks = [i \in 1..MaxStarts |-> NoRun]
  /\ sse = NoSse
  /\ log = <<>>
  /\ gh = NoAdmissions
  /\ oracle = NoOracle
  /\ client = <<0, 1>>
  /\ limiter = NoLimiter
  /\ call = NoCall
  /\ batch = NoBatch

AdmitTick ==
  /\ \E d \in StoreSteps : now + d <= MaxTime /\ now' = now + d
  /\ UNCHANGED <<sessions, usedIds, transport, ws, tasks, sse, log, gh, oracle,
                 client, aux>>

\* POST /imagine/start behind Depends(verify_public_key), with a valid body.
AdmitStart ==
  /\ \E key \in PresentedKeys, id \in CreatedIds \ usedIds :
       IF PublicKeyOk(key)
       THEN /\ usedIds' = usedIds \cup {id}
            /\ sessions' = NewSession(sessions, id, <<"p">>, "2:3", "null",
                                      client[1], client[2], now)
            /\ gh' = [gh EXCEPT !.created[id] = Some(now), !.creator[id] = key]
       ELSE UNCHANGED <<sessions, usedIds, gh>>
  /\ UNCHANGED <<now, transport, ws, tasks, sse, log, oracle, client, aux>>

\* POST /imagine/stop behind Depends(verify_public_key), for an id a start
\* has returned or for one no session was ever created under.
AdmitStop ==
  /\ \E key \in PresentedKeys, id \in usedIds \cup StrangerIds :
       IF PublicKeyOk(key)
       THEN /\ sessions' = DropSessions(sessions, {id})
            /\ gh' = [gh EXCEPT !.stopped = @ \cup ({id} \cap usedIds)]
       ELSE UNCHANGED <<sessions, gh>>
  /\ UNCHANGED <<now, usedIds, transport, ws, tasks, sse, log, oracle, client, aux>>

\* /imagine/ws up to accept() or close(1008).
AdmitWs ==
  /\ ws.pc = "none"
  /\ \E task_id \in TaskIdParams, key \in PresentedKeys :
       LET info == GetSession(sessions, task_id, now)
           session_id == IF info.present THEN task_id ELSE ""
           ok == IF session_id = "" THEN PublicKeyOk(key) ELSE TRUE
       IN /\ sessions' = IF task_id = "" THEN sessions
                         ELSE GetSessionStore(sessions, now)
          /\ ws' = IF ok THEN [NoWs EXCEPT !.pc = "recv", !.connected = TRUE,
                                            !.session_id = session_id]
                   ELSE [NoWs EXCEPT !.pc = "closed"]
          /\ gh' = [gh EXCEPT !.ws = Attempt(task_id, key)]
  /\ UNCHANGED <<now, usedIds, transport, tasks, sse, log, oracle, client, aux>>

\* A valid start message on the accepted WebSocket: the run is created.
AdmitWsStart ==
  /\ ws.pc = "recv"
  /\ ws.runs = 0
  /\ LET p == StartParams(<<>>)
     IN /\ sessions' = IF ws.session_id = "" THEN sessions
                       ELSE GetSessionStore(sessions, now)
        /\ ws' = Created(ws, p[1], p[2])
        /\ tasks' = [tasks EXCEPT ![1] = NewRun(p[1], p[2])]
  /\ UNCHANGED <<now, usedIds, transport, sse, log, gh, oracle, client, aux>>

\* GET /imagine/sse up to the StreamingResponse: 404, 401, or the generator
\* that is the run.
AdmitSse ==
  /\ sse.run = 0
  /\ ~gh.sse.made
  /\ \E task_id \in TaskIdParams, key \in PresentedKeys :
       LET info == GetSession(sessions, task_id, now)
           status == IF task_id # ""
                     THEN IF info.present THEN 200 ELSE 404
                     ELSE IF PublicKeyOk(key) THEN 200 ELSE 401
           p == IF task_id = "" THEN client ELSE <<info.quantity, info.concurrent>>
       IN /\ sessions' = IF task_id = "" THEN sessions
                         ELSE GetSessionStore(sessions, now)
          /\ IF status = 200
             THEN /\ tasks' = [tasks EXCEPT ![2] = NewRun(p[1], p[2])]
                  /\ sse' = [run |-> 2, task_id |-> task_id, disconnected |-> FALSE]
             ELSE UNCHANGED <<tasks, sse>>
          /\ gh' = [gh EXCEPT !.sse = Attempt(task_id, key)]
  /\ UNCHANGED <<now, usedIds, transport, ws, log, oracle, client, aux>>

AdmitNext ==
  \/ AdmitTick
  \/ AdmitStart
  \/ AdmitStop
  \/ AdmitWs
  \/ AdmitWsStart
  \/ AdmitSse

SpecAdmit == AdmitInit /\ [][AdmitNext]_vars

\* ------------------------------------- reverse transport: the fallback
\* request_with_impersonation_fallback as a state machine over its two
\* awaits.  `call` holds the arguments, the requests handed to the session
\* (with the keyword arguments that matter), what the session answered, and
\* how the function ended.  A string is a sequence of characters, an error
\* message a sequence of fragments.

\* The `proxies` argument: None, or a dict of strings.
NotADict == [dict |-> FALSE, items |-> <<>>]
Dict(items) == [dict |-> TRUE, items |-> items]
ProxyArguments ==
  { NotADict,
    Dict(<<>>),
    Dict([k \in {"http"} |-> <<"u">>]),
    Dict([k \in {"https"} |-> <<" ", "u", " ">>]),
    Dict([k \in {"http", "https"} |-> IF k = "http" THEN <<" ">> ELSE <<>>]),
    Dict([k \in {"all"} |-> <<"u">>]) }

BrowserArguments == {"None", "", "chrome"}

Messages ==
  { <<"curl: (35)", "TLS connect error", "invalid library">>,
    <<"CURL: (35)", "tls connect error", "Invalid library">>,
    <<"curl: (35)", "tls connect error">>,
    <<"curl: (28)", "tls connect error", "invalid library">>,
    <<>> }

\* What the session's request function does: it returns a response or
\* raises; CancelledError is no Exception.
Returns(response) == [how |-> "return", class |-> "", value |-> response]
Raises(class, message) == [how |-> "raise", class |-> class, value |-> message]
SessionAnswers ==
  {Returns(<<"response">>)}
    \cup {Raises("Exception", m) : m \in Messages}
    \cup {Raises("CancelledError", <<>>)}

\* normalize_proxies
normalize_proxies(proxies) ==
  IF ~proxies.dict THEN NotADict
  ELSE LET keys == {k \in {"http", "https"} \cap DOMAIN proxies.items :
                      Strip(proxies.items[k]) # <<>>}
       IN IF keys = {} THEN NotADict
          ELSE Dict([k \in keys |-> Strip(proxies.items[k])])

ProxyEnabled(proxies) == normalize_proxies(proxies) # NotADict

\* str(error).lower(), fragment by fragment
Lower(fragment) ==
  CASE fragment = "CURL: (35)" -> "curl: (35)"
    [] fragment = "TLS connect error" -> "tls connect error"
    [] fragment = "Invalid library" -> "invalid library"
    [] OTHER -> fragment

is_tls_proxy_impersonation_error(message) ==
  LET msg == {Lower(message[j]) : j \in DOMAIN message}
  IN /\ "curl: (35)" \in msg
     /\ "tls connect error" \in msg
     /\ "invalid library" \in msg

\* A test that asks for a retry after every error.
RetryAlways(message, browser, proxies) == TRUE

should_retry_without_impersonate(message, browser, proxies) ==
  IF browser \in {"None", ""} THEN FALSE
  ELSE IF ~ProxyEnabled(proxies) THEN FALSE
  ELSE is_tls_proxy_impersonation_error(message)

\* request_fn(url, proxies=..., [impersonate=...], **kwargs)
RequestSent(proxies, impersonate) == [proxies |-> proxies, impersonate |-> impersonate]

TransportInit ==
  /\ call \in {[op |-> "request", pc |-> "called", browser |-> b, proxies |-> p,
                sent |-> <<>>, answers |-> <<>>, ended |-> Returns(<<>>)] :
                 b \in BrowserArguments, p \in ProxyArguments}
  /\ now = 0
  /\ sessions = [k \in SessionIds |-> NoSession]
  /\ usedIds = {}
  /\ gh = NoHistory
  /\ limiter = NoLimiter
  /\ config = NoConfig
  /\ RunIdle

\* Up to the first await: the proxies are normalized and the request is
\* handed to the session, with impersonate when a browser is given.
FirstRequest ==
  /\ call.pc = "called"
  /\ LET proxies == normalize_proxies(call.proxies)
     IN call' = [call EXCEPT
                   !.pc = "first",
                   !.sent = <<RequestSent(proxies,
                                IF call.browser \in {"None", ""} THEN "absent"
                                ELSE call.browser)>>]
  /\ UNCHANGED <<now, sessions, usedIds, gh, limiter, config, runVars>>

\* The first request is answered: the response is returned, or the error is
\* looked at and either the second request is handed to the session or the
\* error is raised again.
FirstAnswer ==
  /\ call.pc = "first"
  /\ \E a \in SessionAnswers :
       LET proxies == normalize_proxies(call.proxies)
           answered == [call EXCEPT !.answers = <<a>>]
       IN call' =
            IF a.how = "return" \/ a.class # "Exception"
            THEN [answered EXCEPT !.pc = "ended", !.ended = a]
            ELSE IF should_retry_without_impersonate(a.value, call.browser, proxies)
            THEN [answered EXCEPT !.pc = "second",
                                  !.sent = Append(@, RequestSent(proxies, "absent"))]
            ELSE [answered EXCEPT !.pc = "ended", !.ended = a]
  /\ UNCHANGED <<now, sessions, usedIds, gh, limiter, config, runVars>>

\* The second request is answered: whatever it is, it is the function's end.
SecondAnswer ==
  /\ call.pc = "second"
  /\ \E a \in SessionAnswers :
       call' = [call EXCEPT !.pc = "ended", !.answers = Append(@, a), !.ended = a]
  /\ UNCHANGED <<now, sessions, usedIds, gh, limiter, config, runVars>>

TransportNext == FirstRequest \/ FirstAnswer \/ SecondAnswer

SpecTransport == TransportInit /\ [][TransportNext]_vars

\* ----------------------------------------- admin config: masks and back
\* GET /config answers the stored configuration with its secrets masked;
\* POST /config takes a configuration and puts the stored secret back where
\* the mask of it was submitted.  A configuration value is a string (a
\* sequence of characters), a number, a list or a dict; `config` holds the
\* stored configuration, `call` the latest answer.
MASK_HEAD == 8
MASK_TAIL == 8

String(s) == [t |-> "str", v |-> s]
Number(n) == [t |-> "int", v |-> n]
ListOf(l) == [t |-> "list", v |-> l]
DictOf(d) == [t |-> "dict", v |-> d]
NoValue == [t |-> "none", v |-> <<>>]

\* value[:n] and value[-n:]
Prefix(s, n) == SubSeq(s, 1, Min(n, Len(s)))
Suffix(s, n) == SubSeq(s, Max(1, Len(s) - n + 1), Len(s))

\* _mask_secret(value, head=8, tail=8)
MaskSecret(value) ==
  IF value = <<>> THEN <<>>
  ELSE IF Len(value) <= MASK_HEAD + MASK_TAIL
  THEN Prefix(value, 2) \o <<"*", "*", "*">> \o Suffix(value, 2)
  ELSE Prefix(value, MASK_HEAD) \o <<".", ".", ".">> \o Suffix(value, MASK_TAIL)

\* The keys of the model's configurations, with what _is_sensitive_path
\* finds in them: key.lower() ends with "_key", or holds one of
\* SENSITIVE_KEY_HINTS ("token", "secret", "password", "clearance").
ConfigKeys == {"app", "api_key", "name", "tokens", "token"}
EndsWithKey(key) == key \in {"api_key"}
HoldsHint(key) == key \in {"tokens", "token"}
SENSITIVE_PATHS == {<<"app", "api_key">>, <<"app", "app_key">>,
                    <<"app", "public_key">>, <<"proxy", "cf_clearance">>}

IsSensitivePath(path) ==
  IF Len(path) >= 2 /\ <<path[Len(path) - 1], path[Len(path)]>> \in SENSITIVE_PATHS
  THEN TRUE
  ELSE IF path = <<>> THEN FALSE
  ELSE EndsWithKey(path[Len(path)]) \/ HoldsHint(path[Len(path)])

\* _mask_config_values(data, path)
RECURSIVE MaskConfigValues(_, _)
MaskConfigValues(data, path) ==
  CASE data.t = "dict" ->
         DictOf([key \in DOMAIN data.v |->
                   MaskConfigValues(data.v[key], Append(path, key))])
    [] data.t = "list" ->
         ListOf([j \in DOMAIN data.v |-> MaskConfigValues(data.v[j], path)])
    [] data.t = "str" /\ data.v # <<>> /\ IsSensitivePath(path) ->
         String(MaskSecret(data.v))
    [] OTHER -> data

\* _restore_masked_secrets(incoming, current, path)
RECURSIVE RestoreMaskedSecrets(_, _, _)
RestoreMaskedSecrets(incoming, current, path) ==
  CASE incoming.t = "dict" ->
         DictOf([key \in DOMAIN incoming.v |->
                   RestoreMaskedSecrets(
                     incoming.v[key],
                     IF current.t = "dict" /\ key \in DOMAIN current.v
                     THEN current.v[key] ELSE NoValue,
                     Append(path, key))])
    [] incoming.t = "list" -> incoming
    [] /\ incoming.t = "str" /\ current.t = "str" /\ current.v # <<>>
       /\ IsSensitivePath(path) /\ incoming.v = MaskSecret(current.v) -> current
    [] OTHER -> incoming

\* Stored values: the empty string, a one-character secret, a secret that is
\* its own mask, one longer than head + tail, a number, lists of secrets and
\* a list of dicts.
Secrets ==
  { <<>>, <<"s">>, <<"a", "b", "*", "*", "*", "c", "d">>,
    <<"0", "1", "2", "3", "4", "5", "6", "7", "8", "9", "a", "b", "c", "d", "e",
      "f", "g">> }
StoredValues ==
  {String(s) : s \in Secrets}
    \cup {Number(1), ListOf(<<>>), ListOf(<<String(<<"s">>)>>), ListOf(<<String(<<>>), Number(1)>>),
          ListOf(<<DictOf([k \in {"token"} |-> String(<<"s">>)])>>)}

StoredConfigs ==
  {DictOf([section \in {"app"} |->
             DictOf([k \in {"api_key", "name", "tokens"} |->
                       CASE k = "api_key" -> a [] k = "name" -> b [] OTHER -> c])]) :
     a \in {String(s) : s \in Secrets}, b \in {String(<<"s">>), Number(1), ListOf(<<String(<<"s">>)>>)},
     c \in StoredValues}

ConfigInit ==
  /\ config \in StoredConfigs
  /\ call = NoCall
  /\ now = 0
  /\ sessions = [k \in SessionIds |-> NoSession]
  /\ usedIds = {}
  /\ gh = NoHistory
  /\ limiter = NoLimiter
  /\ RunIdle

\* GET /config
GetConfig ==
  /\ call.op = "none"
  /\ call' = [op |-> "get_config", seq |-> 1, body |-> MaskConfigValues(config, <<>>)]
  /\ UNCHANGED <<now, sessions, usedIds, gh, limiter, config, runVars>>

\* POST /config with the body GET /config answered, up to the call of
\* config.update: `merged` is what is handed to it.
UpdateConfig ==
  /\ call.op = "get_config"
  /\ call' = [op |-> "update_config", seq |-> 2, body |-> call.body,
              merged |-> RestoreMaskedSecrets(call.body, config, <<>>)]
  /\ UNCHANGED <<now, sessions, usedIds, gh, limiter, config, runVars>>

ConfigNext == GetConfig \/ UpdateConfig

SpecConfig == ConfigInit /\ [][ConfigNext]_vars

\* =============================================================== properties
IsPrefix(a, b) == Len(a) <= Len(b) /\ \A k \in 1..Len(a) : a[k] = b[k]


\* The run the client is being sent the events of has announced itself.
Announced == Len(log) > 0 /\ log[1].kind = "running"

\* The request sizes reported by the round_done events so far.
RequestSizes == [k \in 1..Len(RoundDones(log)) |-> RoundDones(log)[k].request_n]

\* The await points of a round before any image of it is counted.
RoundBegun == {"reload", "notoken_send", "notoken_sleep", "generate"}

\* ----------------------------------------------------------------------- C1
\* C1 as stated: with q > 0 the stopped event's generated_count equals
\* min(q, final images produced), never exceeds q, and the reason is
\* quantity_reached whenever it equals q.
C1_AsStated ==
  \A k \in 1..Len(log) :
    (log[k].kind = "stopped" /\ log[k].target_count > 0) =>
      /\ log[k].generated_count = Min(log[k].target_count, gh.produced)
      /\ log[k].generated_count <= log[k].target_count
      /\ log[k].generated_count = log[k].target_count
            => log[k].reason = "quantity_reached"

\* The cancellation of the run task landed while the run was sending an image.
CancelledInImageSend == gh.hit \in {"chunk_send", "img_send"}

\* C1, amended: with q > 0 the stopped event's generated_count never exceeds
\* q nor the number of final images produced, the reason is quantity_reached
\* whenever it equals q, and it equals min(q, produced) unless the run task
\* was cancelled while it was sending an image event.
C1_GeneratedCount ==
  \A k \in 1..Len(log) :
    (log[k].kind = "stopped" /\ log[k].target_count > 0) =>
      /\ log[k].generated_count <= log[k].target_count
      /\ log[k].generated_count <= gh.produced
      /\ log[k].generated_count = log[k].target_count
            => log[k].reason = "quantity_reached"
      /\ ~CancelledInImageSend
            => log[k].generated_count = Min(log[k].target_count, gh.produced)

\* A run whose service produced more than q images stopped with exactly q.
C1_Witness ==
  /\ Len(log) > 0
  /\ Last(log).kind = "stopped"
  /\ Last(log).target_count > 0
  /\ gh.produced > Last(log).target_count
  /\ Last(log).generated_count = Last(log).target_count

\* ----------------------------------------------------------------------- C2
\* C2: in every round 1 <= request_n <= concurrent; with q > 0 also
\* request_n <= q - generated_count as it was when the round began; with
\* q <= 0 request_n is exactly concurrent.  The round_done event reports the
\* same request_n.
C2_RequestNBounds ==
  /\ \A i \in Runs :
        tasks[i].pc \in RoundBegun =>
          LET r == tasks[i]
          IN /\ 1 <= r.request_n
             /\ r.request_n <= r.batch_size
             /\ r.target_count > 0 => r.request_n <= r.target_count - r.final_count
             /\ r.target_count <= 0 => r.request_n = r.batch_size
  /\ \A k \in 1..Len(log) :
        (Announced /\ log[k].kind = "round_done") =>
          /\ 1 <= log[k].request_n
          /\ log[k].request_n <= log[1].batch_size
          /\ log[k].target_count > 0 => log[k].request_n <= log[k].target_count
          /\ log[k].target_count <= 0 => log[k].request_n = log[1].batch_size

\* A later round of a bounded run asks for less than concurrent.
C2_Witness ==
  \E i \in Runs :
    /\ tasks[i].pc = "generate"
    /\ tasks[i].final_count > 0
    /\ tasks[i].request_n < tasks[i].batch_size
    /\ tasks[i].request_n = tasks[i].target_count - tasks[i].final_count

\* ----------------------------------------------------------------------- C3
\* floor(q/c) times c, then q mod c when that is not zero
RECURSIVE ExpectedRounds(_, _)
ExpectedRounds(q, c) ==
  IF q <= 0 THEN <<>>
  ELSE IF q >= c THEN <<c>> \o ExpectedRounds(q - c, c)
  ELSE <<q>>

\* Every token request was answered and every round gave exactly request_n
\* final images; nobody asked for a stop; the session and the client stayed.
Undisturbed == gh.exact /\ gh.stopReq = "" /\ gh.exit = "" /\ gh.hit = ""

\* C3: with q > 0, a token always available, every round yielding exactly
\* request_n finals and no stop, the request_n of the round_done events are
\* floor(q/c) times c followed by q mod c if non-zero, and the run then
\* stops with generated_count = q and reason quantity_reached.
C3_RoundSizes ==
  (Announced /\ log[1].target_count > 0 /\ Undisturbed) =>
    LET q == log[1].target_count
        c == log[1].batch_size
    IN /\ IsPrefix(RequestSizes, ExpectedRounds(q, c))
       /\ Last(log).kind = "stopped" =>
            /\ RequestSizes = ExpectedRounds(q, c)
            /\ Last(log).generated_count = q
            /\ Last(log).reason = "quantity_reached"
       /\ (RequestSizes = ExpectedRounds(q, c) /\ Last(log).kind = "round_done") =>
            \A i \in Runs : tasks[i].pc \notin Finished => tasks[i].pc = "stopped_send"

\* The scenario q = 8, c = 3 ran to its end: rounds of 3, 3 and 2.
C3_Witness ==
  /\ Announced
  /\ Undisturbed
  /\ log[1].target_count = 8
  /\ log[1].batch_size = 3
  /\ Last(log).kind = "stopped"
  /\ RequestSizes = <<3, 3, 2>>

\* ----------------------------------------------------------------------- C4
\* An unbounded run was asked to stop (stop message, POST /imagine/stop) when
\* exactly one round_done had been emitted.
StopAfterFirstRound ==
  /\ Announced
  /\ log[1].target_count = 0
  /\ gh.stopReq \in {"stop", "drop"}
  /\ gh.doneAtStop = 1
  /\ Last(log).kind = "stopped"

FirstRoundDone == RoundDones(log)[1]

\* The final-image events sent after the first round_done.
RECURSIVE ImagesAfterRoundDone(_, _)
ImagesAfterRoundDone(l, seen) ==
  IF l = <<>> THEN 0
  ELSE (IF seen /\ Head(l).type = "image" /\ Head(l).kind = "final" THEN 1 ELSE 0)
       + ImagesAfterRoundDone(Tail(l), seen \/ Head(l).kind = "round_done")

\* C4 as stated: the stopped event has reason "stopped" and the
\* generated_count of the first round_done.
C4_AsStated ==
  StopAfterFirstRound =>
    /\ Last(log).reason = "stopped"
    /\ Last(log).generated_count = FirstRoundDone.generated_count

\* C4, amended: the stopped event has reason "stopped"; no round begins after
\* the stop request and at most the round in flight reports round_done; the
\* generated_count is the first round_done's plus at most the final images
\* of that round which were sent.
C4_StopAfterFirstRound ==
  StopAfterFirstRound =>
    /\ Last(log).reason = "stopped"
    /\ Last(log).generated_count >= FirstRoundDone.generated_count
    /\ Last(log).generated_count
         <= FirstRoundDone.generated_count + ImagesAfterRoundDone(log, FALSE)
    /\ Len(RoundDones(log)) <= 2
    /\ \A k \in 1..Len(log) :
         log[k].kind = "round_done" => log[k].round <= gh.roundAtStop

\* The stop arrived while the second round was in flight, and that round's
\* images are in the count.
C4_Witness ==
  /\ StopAfterFirstRound
  /\ Last(log).generated_count > FirstRoundDone.generated_count

\* ----------------------------------------------------------------------- C5
NoTokenPcs == {"notoken_send", "notoken_sleep"}

\* Somebody asked the run to end: a stop, a new start, a close, a removed
\* session, a client that went away.
StopAsked == ws.stop_event \/ sse.disconnected \/ gh.stopReq # ""

\* C5: an iteration that found no token sends one rate_limit_exceeded error,
\* calls no generation, emits no round_done and leaves generated_count as it
\* was; after the backoff the loop goes on with its next iteration, and only
\* a requested stop ends the run from there.
C5_NoTokenIteration ==
  [][\A i \in Runs :
       /\ (tasks[i].pc = "notoken_send" /\ tasks'[i].pc = "notoken_sleep"
             /\ Connected(i))
            => log' = Append(log, EvError(i, "rate_limit_exceeded"))
       /\ tasks[i].pc \in NoTokenPcs =>
            \/ /\ tasks'[i].pc \in NoTokenPcs \cup {"reload", "poll"}
               /\ tasks'[i].final_count = tasks[i].final_count
               /\ RoundDones(log') = RoundDones(log)
               /\ tasks'[i].pc = "reload" => tasks'[i].round_index = tasks[i].round_index + 1
            \/ StopAsked']_vars

\* Two iterations in a row found no token, the third found one.
C5_Witness ==
  \E i \in Runs, k \in 1..Len(log) :
    /\ k + 1 = Len(log)
    /\ log[k].kind = "rate_limit_exceeded"
    /\ log[k + 1].kind = "rate_limit_exceeded"
    /\ tasks[i].pc = "generate"
    /\ tasks[i].final_count = 0

\* ----------------------------------------------------------------------- C6
\* The run the connection holds.
HeldRun == IF transport = "sse" THEN sse.run ELSE ws.run_task

\* C6 as stated: a run that entered its round loop sends exactly one stopped
\* event, as its last event, whatever ends the loop, a cancellation at any
\* of its await points included.
C6_AsStated ==
  /\ Len(Stoppeds(log)) <= 1
  /\ Len(Stoppeds(log)) = 1 => Last(log).kind = "stopped"
  /\ (/\ HeldRun # 0
      /\ Connected(HeldRun)
      /\ gh.entered
      /\ tasks[HeldRun].pc \in {"done", "cancelled", "closed"})
       => (Len(log) > 0 /\ Last(log).kind = "stopped")

\* ----------------------------------------------------------------------- C7
ActiveRuns == {i \in Runs : tasks[i].pc \notin Finished}

\* C7: on a WebSocket connection at most one run is active; a run is created
\* only when every earlier run has finished, and the events the client is
\* sent are those of the run the connection holds.
C7_OneActiveRun ==
  [][/\ Cardinality(ActiveRuns') <= 1
     /\ ws'.runs # ws.runs => \A i \in 1..ws.runs : tasks[i].pc \in Finished
     /\ transport' = "ws" => \A k \in 1..Len(log') : log'[k].run = ws'.run_task]_vars

\* A start message arrived during a run: the run has sent its stopped event
\* and returned, and _stop_run is about to let the new run be created.
C7_Witness ==
  /\ ws.pc = "stop_wait"
  /\ ws.then = "start"
  /\ tasks[ws.run_task].pc = "done"
  /\ Len(log) > 1
  /\ Last(log).kind = "stopped"
  /\ ws.runs < MaxStarts

\* ----------------------------------------------------------------------- C9
\* C9 as stated: once POST /imagine/stop has removed the session of an SSE
\* run, no token acquisition or generation call is begun.
C9_AsStated == ~gh.acqAfterDrop

\* C9, amended: once POST /imagine/stop has removed the session of an SSE
\* run, no round begins (round_index does not grow); the iteration in flight
\* goes on, so that at most one more round_done is sent; the next liveness
\* poll leaves the loop, and the stopped event follows.
C9_NoNewRound ==
  [][(gh.dropped /\ transport = "sse") =>
       LET i == sse.run
       IN /\ tasks'[i].round_index <= tasks[i].round_index
          /\ (tasks[i].pc = "poll" /\ tasks'[i].pc # "poll")
               => tasks'[i].pc \in {"stopped_send", "closed"}
          /\ Len(RoundDones(log')) <= gh.doneAtStop + 1
          /\ (tasks[i].pc = "stopped_send" /\ tasks'[i].pc = "done" /\ Connected(i))
               => Last(log').kind = "stopped"]_vars

\* The session was removed while an iteration awaited reload_if_stale: the
\* token was fetched and the round completed after the removal, then the run
\* stopped.
C9_Witness ==
  /\ gh.dropped
  /\ gh.acqAfterDrop
  /\ Len(log) > 0
  /\ Last(log).kind = "stopped"
  /\ Len(RoundDones(log)) = gh.doneAtStop + 1

\* ---------------------------------------------------------------------- C10
\* C10 as stated: a run whose client stays connected ends with stopped only
\* through a requested stop or quantity completion; nothing else, such as the
\* age of its session, ends it.
C10_AsStated ==
  (Len(log) > 0 /\ Last(log).kind = "stopped") =>
    \/ Last(log).reason = "quantity_reached"
    \/ gh.stopReq # ""

\* ----------------------------------------------------------------------- C8
\* What C8 compares of an event: its type, its status or code, and its round,
\* request_n, generated_count, target_count and reason.
Shown(l) ==
  [k \in 1..Len(l) |->
     [type |-> l[k].type, kind |-> l[k].kind, round |-> l[k].round,
      request_n |-> l[k].request_n, generated_count |-> l[k].generated_count,
      target_count |-> l[k].target_count, reason |-> l[k].reason]]

\* The points where a run takes an answer of a collaborator, and the answers
\* asked for there.
AnswersAt(pc) ==
  CASE pc = "created" -> {"model_ok", "model_missing"}
    [] pc = "reload" -> {"token", "no_token", "reload_raises"}
    [] pc = "generate" -> {"raise", "stream", "list"}
    [] pc = "chunk" -> {"final", "partial", "junk", "raise", "end"}
    [] OTHER -> {}

\* C8: given the same parameters and the same collaborator outcomes, with no
\* stop and no disconnect, the SSE run asks its collaborators at the same
\* points as the WebSocket run and sends the same events: what it has sent is
\* always a prefix of what the WebSocket run sent, and all of it once the SSE
\* run has consumed the outcomes or returned.
C8_SameEvents ==
  (transport = "pair" /\ sse.run # 0) =>
    LET r == tasks[sse.run]
    IN /\ IsPrefix(Shown(log), Shown(oracle.ref))
       /\ AnswersAt(r.pc) # {} =>
            IF oracle.pos <= Len(oracle.seq)
            THEN oracle.seq[oracle.pos].k \in AnswersAt(r.pc)
            ELSE Shown(log) = Shown(oracle.ref)
       /\ r.pc = "done" =>
            /\ Shown(log) = Shown(oracle.ref)
            /\ oracle.pos = Len(oracle.seq) + 1

\* Both runs went through a failed round, a round without a token and a list
\* round, and returned after the same events.
C8_Witness ==
  /\ transport = "pair"
  /\ sse.run # 0
  /\ tasks[sse.run].pc = "done"
  /\ Len(log) >= 6
  /\ Last(log).kind = "stopped"
  /\ \E k \in 1..Len(log) : log[k].kind = "rate_limit_exceeded"
  /\ \E k \in 1..Len(log) : log[k].kind = "internal_error"
  /\ \E k \in 1..Len(log) : log[k].sequence > 0
  /\ Shown(log) = Shown(oracle.ref)

\* ---------------------------------------------------------------------- C11
\* A step that answers a call of the given kind.
Answers(op) == call'.seq # call.seq /\ call'.op = op

\* C11: every POST /imagine/stop answers with status success; removed is the
\* number of distinct listed ids that were in the store at the call; it is 0
\* when every listed id was already stopped or never created; afterwards no
\* listed id is in the store, and the sessions not listed are untouched.
C11_StopIdempotent ==
  [][Answers("stop") =>
       LET listed == Range(call'.task_ids) \cap StoreIds
       IN  /\ call'.status = 200
           /\ call'.result = "success"
           /\ call'.removed = Cardinality({k \in listed : sessions[k].present})
           /\ \A k \in listed : ~sessions'[k].present
           /\ \A k \in StoreIds \ listed : sessions'[k] = sessions[k]
           /\ (\A k \in listed : k \in gh.dropped \/ k \notin usedIds)
                => call'.removed = 0]_vars

\* A stop of a session that was created and, no time having passed, can only
\* have left the store through an earlier stop.
C11_Witness ==
  /\ call.op = "stop"
  /\ call.removed = 0
  /\ now = 0
  /\ Range(call.task_ids) \cap usedIds # {}

\* ---------------------------------------------------------------------- C12
SameFields(a, b) ==
  /\ a.prompt = b.prompt
  /\ a.aspect_ratio = b.aspect_ratio
  /\ a.nsfw = b.nsfw
  /\ a.quantity = b.quantity
  /\ a.concurrent = b.concurrent

\* The age, at the present time, of the session created under id.
Age(id) == now - gh.given[id].created_at

\* The caller writes into the dict a get returned.
Mutates == call.op = "get" /\ call'.op = "get" /\ ~call.mutated /\ call'.mutated

\* C12: in every interleaving of start, get, stop and the clock, a get never
\* returns a session older than the TTL (it answers not-found and the entry
\* is gone); a get of a created session that no stop has listed, at an age of
\* at most the TTL, returns the five fields given at creation; and writing
\* into the returned dict leaves the store as it was.
C12_GetWithinTtl ==
  [][/\ Answers("get") =>
          LET id == call'.task_id
          IN  /\ call'.found =>
                   /\ id \in usedIds
                   /\ Age(id) <= IMAGINE_SESSION_TTL
                   /\ SameFields(call'.copy.value, gh.given[id])
              /\ (id \in usedIds /\ Age(id) > IMAGINE_SESSION_TTL) =>
                   ~call'.found /\ ~sessions'[id].present
              /\ (id \in usedIds /\ id \notin gh.dropped
                    /\ Age(id) <= IMAGINE_SESSION_TTL) => call'.found
     /\ Mutates => sessions' = sessions]_vars

\* A session fetched at an age of exactly the TTL, whose copy was then
\* written into.
C12_Witness ==
  /\ call.op = "get"
  /\ call.found
  /\ call.mutated
  /\ Age(call.task_id) = IMAGINE_SESSION_TTL
  /\ sessions[call.task_id].present

\* ---------------------------------------------------------------------- C16
\* A start body with an empty prompt, or a quantity or concurrent out of range
InvalidBody(body) ==
  \/ Strip(body.prompt) = <<>>
  \/ body.quantity # None /\ TheInt(body.quantity) \notin 0..200
  \/ body.concurrent # None /\ TheInt(body.concurrent) \notin 1..6

\* C16: POST /imagine/start with an empty prompt, a quantity outside [0,200]
\* or a concurrent outside [1,6] is answered 400 and leaves the store as it
\* was; no stored session holds a quantity or concurrent out of range.
C16_StartValidation ==
  /\ [](\A k \in StoreIds :
          sessions[k].present =>
            sessions[k].quantity \in 0..200 /\ sessions[k].concurrent \in 1..6)
  /\ [][(Answers("start") /\ InvalidBody(call'.body)) =>
          /\ call'.status = 400
          /\ sessions' = sessions
          /\ usedIds' = usedIds]_vars

\* A start with quantity 201 refused while a session is stored.
C16_Witness ==
  /\ call.op = "start"
  /\ call.status = 400
  /\ call.body.quantity = Some(201)
  /\ \E k \in StoreIds : sessions[k].present

\* ---------------------------------------------------------------------- C13
\* C13, as stated: when the client disconnects a WebSocket that was opened
\* with a task_id and had runs started on it, the session it was opened with,
\* present and within its TTL until then, is still present once the handler
\* has ended.
C13_AsStated ==
  [][(/\ ws.pc # "closed"
      /\ ws'.pc = "closed"
      /\ ws.pc = "recv" \/ ws.then = "close"
      /\ ws.session_id # ""
      /\ ws.runs >= 1
      /\ sessions[ws.session_id].present
      /\ ~Expired(sessions[ws.session_id], now))
       => sessions'[ws.session_id].present]_vars

\* ---------------------------------------------------------------------- C14
\* Run i is inside an iteration of its loop.
InRound(i) == i # 0 /\ tasks[i].pc \in InTry /\ tasks[i].round_index >= 1

\* C14, as stated: while the run of an SSE stream opened with a task_id is
\* inside a round, no run of a WebSocket opened with the same task_id is
\* inside a round.
C14_AsStated ==
  ~(/\ sse.task_id # ""
    /\ ws.session_id = sse.task_id
    /\ InRound(sse.run)
    /\ InRound(ws.run_task))

\* ---------------------------------------------------------------------- C15
\* The generator of the SSE stream has ended.
SseEnded == sse.run # 0 /\ tasks[sse.run].pc \in {"done", "cancelled", "closed"}

\* A step of the SSE stream: its opening, its disconnect, a step of its
\* generator.
SseSteps == sse'.run # 0 /\ (sse' # sse \/ tasks'[sse'.run] # tasks[sse'.run])

InWindow(times, t) ==
  {j \in DOMAIN times : times[j] > t - WindowTicks /\ times[j] <= t}

\* A step in which the limiter answers a request.
Asked == Answers("dispatch") /\ call'.asked

\* C17: with the key's limit N and the window W, a call to the limiter is
\* admitted exactly when fewer than N admitted calls of its key lie in the
\* W seconds that end at the call; so no W seconds hold more than N
\* admissions of one key.
C17_SlidingWindow ==
  /\ [][Asked =>
          (call'.allowed <=>
             Cardinality(InWindow(gh.admitted[BucketKey(call'.request)],
                                  limiter.monotonic)) < call'.limit)]_vars
  /\ [](\A k \in BucketKeys :
          gh.admitted[k] # <<>> =>
            LET n == LimitOf(k[2])
            IN  \A t \in 0..MaxMono :
                  Cardinality(InWindow(gh.admitted[k], t)) <= n)

\* The third call of a window, under a limit of 2, turned away.
C17_Witness ==
  /\ call.op = "dispatch"
  /\ ~call.allowed
  /\ call.limit = 2
  /\ Cardinality(InWindow(gh.admitted[BucketKey(call.request)],
                          limiter.monotonic)) = 2

\* ---------------------------------------------------------------------- C18
\* The earliest of the admissions of key k that lie in the window ending at t
Oldest(k, t) ==
  LET in == InWindow(gh.admitted[k], t)
  IN  gh.admitted[k][CHOOSE j \in in : \A i \in in : j <= i]

\* The part of the admissions of key k that lies in the window ending at t
Logged(k, t) ==
  SelectSeq(gh.admitted[k], LAMBDA x : x > t - WindowTicks)

\* C18: a rejected call returns a retry_after in (0, W] that is the time until
\* the oldest admission in the window leaves it, and leaves the key's log with
\* no entry for itself; a call on the key made retry_after or more after the
\* rejection, with no admission of the key in between, is admitted.
C18_RetryAfter ==
  [][Asked =>
       LET k == BucketKey(call'.request)
           t == limiter.monotonic
       IN  /\ ~call'.allowed =>
                /\ call'.retry_after > 0
                /\ call'.retry_after <= WindowTicks
                /\ call'.retry_after = Oldest(k, t) + WindowTicks - t
                /\ limiter'.buckets[k] = Logged(k, t)
           /\ (gh.until[k] # -1 /\ t >= gh.until[k]) => call'.allowed]_vars

\* A call made exactly retry_after after its key's rejection, admitted.
C18_Witness ==
  /\ call.op = "dispatch"
  /\ call.asked
  /\ call.allowed
  /\ gh.late = 0

\* ---------------------------------------------------------------------- C19
\* C19: a governed request the limiter rejects is answered 429 with a
\* Retry-After of retry_after rounded up to whole seconds, at least 1, and a
\* rate_limit_exceeded body, and is not forwarded to the route handler.
C19_Blocked ==
  (call.op = "dispatch" /\ call.asked /\ ~call.allowed) =>
    /\ call.status = 429
    /\ call.header >= 1
    /\ call.header * TicksPerSecond >= call.retry_after
    /\ (call.header - 1) * TicksPerSecond < call.retry_after
    /\ call.code = "rate_limit_exceeded"
    /\ ~call.forwarded

\* A rejection whose retry_after is no whole number of seconds and more than
\* a second.
C19_Witness ==
  /\ call.op = "dispatch"
  /\ ~call.allowed
  /\ call.retry_after > TicksPerSecond
  /\ call.retry_after % TicksPerSecond # 0
  /\ call.status = 429

\* ---------------------------------------------------------------------- C20
\* The rules of the configuration that apply to a path
ExactRules(path) ==
  {j \in DOMAIN config.route_limits : config.route_limits[j][1] = path}
WildcardRules(path) ==
  {j \in DOMAIN config.route_limits :
     /\ IsWildcard(config.route_limits[j][1])
     /\ StartsWith(path, PrefixOf(config.route_limits[j][1]))}
Longest(rules) ==
  CHOOSE j \in rules :
    \A i \in rules : Len(config.route_limits[i][1]) <= Len(config.route_limits[j][1])
IntegerRules ==
  \A j \in DOMAIN config.route_limits : config.route_limits[j][2].t = "int"

\* The limit the rules name for a path, negative values counting as 0
Resolved(path) ==
  IF ExactRules(path) # {}
  THEN Max(0, config.route_limits[CHOOSE j \in ExactRules(path) : TRUE][2].v)
  ELSE IF WildcardRules(path) # {}
  THEN Max(0, config.route_limits[Longest(WildcardRules(path))][2].v)
  ELSE DefaultLimit

Terminals(out) == {k \in 1..Len(out) : out[k].type \in TerminalStates}
StreamOf(l) == batch.streams[l]
Streaming(l) == StreamOf(l).pc \notin {"idle", "opened", "closed"}
\* The generator attached while the task was running: its snapshot says so.
AttachedBefore(l) == StreamOf(l).out # <<>> /\ StreamOf(l).out[1].state = "running"
AttachedAfter(l) == StreamOf(l).out # <<>> /\ StreamOf(l).out[1].state \in TerminalStates
Returned(l) == StreamOf(l).pc = "closed" /\ l \notin gh.hung_up

\* C21: whatever the interleaving of attach, detach and the terminal transition,
\* a listener emits at most one terminal event, the one the task caches; a
\* listener that returned emitted exactly one; a listener attached after the
\* broadcast gets it through final_event; and once the task is terminal no
\* listener that has begun to stream waits forever.
C21_OncePerListener ==
  \A l \in Listeners :
    /\ Cardinality(Terminals(StreamOf(l).out)) <= 1
    /\ \A k \in Terminals(StreamOf(l).out) : final_event(batch.task) = Some(StreamOf(l).out[k])
    /\ Returned(l) => Cardinality(Terminals(StreamOf(l).out)) = 1
    /\ AttachedAfter(l) /\ Terminals(StreamOf(l).out) # {} => Len(StreamOf(l).out) = 2
    /\ AttachedAfter(l) => StreamOf(l).pc \in {"snapshot", "final", "closed"}

C21_FanOut ==
  /\ []C21_OncePerListener
  /\ \A l \in Listeners :
       (batch.task.state \in TerminalStates /\ StreamOf(l).pc = "opened")
         ~> (StreamOf(l).pc = "closed")
  /\ \A l \in Listeners :
       (batch.task.state \in TerminalStates /\ Streaming(l)) ~> (StreamOf(l).pc = "closed")

\* Two listeners, one attached before the broadcast and one after, both returned.
C21_Witness ==
  /\ AttachedBefore(1) /\ AttachedAfter(2)
  /\ Returned(1) /\ Returned(2)
  /\ Last(StreamOf(1).out) = Last(StreamOf(2).out)
  /\ Last(StreamOf(1).out).type = "done"

\* C21 as stated: a listener attached before the broadcast gets the terminal
\* event from its channel, never through final_event.
C21_AsStated ==
  \A l \in Listeners : StreamOf(l).pc = "final" => ~AttachedBefore(l)


\* C22: a stream emits the snapshot first and only once, then pings and
\* non-terminal events, and a terminal event only as its last item; a stream that
\* returned emitted one; after the terminal event the generator emits nothing and
\* only returns; and a closed stream, however it was closed, is detached.
C22_Order ==
  \A l \in Listeners :
    LET out == StreamOf(l).out
    IN /\ Streaming(l) => out # <<>>
       /\ \A k \in 1..Len(out) : (out[k].type = "snapshot") <=> (k = 1)
       /\ \A k \in Terminals(out) : k = Len(out)
       /\ Returned(l) => Terminals(out) # {}
       /\ StreamOf(l).pc \in {"idle", "opened", "closed"} => l \notin batch.task.subscribers

C22_StreamShape ==
  /\ []C22_Order
  /\ [][\A l \in Listeners :
          Terminals(StreamOf(l).out) # {}
            => /\ batch'.streams[l].out = StreamOf(l).out
               /\ batch'.streams[l].pc \in {StreamOf(l).pc, "closed"}]_vars

\* A stream that sent snapshot, ping, terminal event, returned and is detached,
\* and a stream the client closed.
C22_Witness ==
  /\ Returned(1)
  /\ Len(StreamOf(1).out) = 3
  /\ StreamOf(1).out[2] = Ping
  /\ StreamOf(1).out[3].type = "cancelled"
  /\ StreamOf(2).pc = "closed" /\ 2 \in gh.hung_up /\ StreamOf(2).out # <<>>
  /\ batch.task.subscribers = {}


\* C23: the state of a task only changes from running to done, error or
\* cancelled; no step changes the state of a terminal task; a result is only
\* present in a terminal state and, once set, never changes.
C23_States ==
  /\ batch.task.state \in {"running"} \cup TerminalStates
  /\ batch.task.result # None => batch.task.state = "done"

C23_Monotonic ==
  /\ []C23_States
  /\ [][/\ batch'.task.state # batch.task.state
             => batch.task.state = "running" /\ batch'.task.state \in TerminalStates
        /\ batch.task.result # None => batch'.task.result = batch.task.result]_vars

\* The job finished with a result and a cancel call was answered as well.
C23_Witness ==
  /\ batch.task.state = "done"
  /\ batch.task.result = Some(ResultOf(1, <<"fail">>))
  /\ batch.task.cancel_requested
  /\ batch.cancel_status = 200
  /\ batch.job.pc = "returned"


\* C24: a step that detaches a listener, the last one included, leaves the
\* task's state, counters, result and cancel flag and the job where they are,
\* and the job can always take its next step, whoever is attached.
Detaches == batch'.task.subscribers # batch.task.subscribers
              /\ batch'.task.subscribers \subseteq batch.task.subscribers
Progress(b) ==
  <<b.task.state, b.task.completed_ok, b.task.completed_fail, b.task.total,
    b.task.result, b.task.cancel_requested, b.task.final, b.job, b.registry, b.expiry>>

C24_WorkGoesOn ==
  batch.job.pc \in {"scheduled", "batch", "save"}
    => ENABLED (RunBegins \/ OnItem \/ BatchReturns \/ SaveReturns)

C24_DetachFrame ==
  /\ []C24_WorkGoesOn
  /\ [][Detaches => Progress(batch') = Progress(batch)]_vars

\* The only listener hung up, nobody is attached, and the job goes on unasked.
C24_Witness ==
  /\ gh.hung_up = {1}
  /\ StreamOf(1).pc = "closed" /\ StreamOf(1).out # <<>>
  /\ batch.task.subscribers = {}
  /\ batch.job.pc = "save"
  /\ batch.task.completed_ok = 1
  /\ ~batch.task.cancel_requested


\* C25: from its creation a task stays in the registry until its expiry fires,
\* which happens only once the task is terminal and EXPIRE_AFTER seconds have
\* passed since; until then neither stream nor cancel answers 404 for its id; and
\* a job that returned, on whichever path, has scheduled the expiry.
TaskCreated == batch.job.pc # "none"
TaskExpired == batch.expiry.pc = "done"

C25_Registry ==
  /\ TaskCreated /\ ~TaskExpired => get_task(batch, batch.task.id) = Some(batch.task)
  /\ batch.job.pc = "returned"
       => batch.expiry.pc \in {"sleeping", "done"} /\ batch.task.state \in TerminalStates
  /\ batch.expiry.pc = "sleeping" => batch.expiry.deadline = TheInt(gh.terminal_at) + EXPIRE_AFTER
  /\ TaskExpired
       => /\ batch.task.state \in TerminalStates
          /\ TheInt(gh.removed_at) >= TheInt(gh.terminal_at) + EXPIRE_AFTER

C25_ExpiryOnly ==
  /\ []C25_Registry
  /\ [][TaskCreated /\ ~TaskExpired
          => /\ batch'.registry = batch.registry \/ batch'.expiry.pc = "done"
             /\ \A l \in Listeners :
                  StreamOpen(l, batch.task.id) => batch'.streams[l].status = 200
             /\ BatchCancel(batch.task.id) => batch'.cancel_status = 200]_vars

\* The task was found by a stream 299 s after it ended and is gone at 300 s:
\* the next stream is answered 404.
C25_Witness ==
  /\ gh.terminal_at = Some(0)
  /\ gh.removed_at = Some(EXPIRE_AFTER)
  /\ batch.registry = {}
  /\ StreamOf(1).status = 200 /\ AttachedAfter(1)
  /\ StreamOf(2).status = 404
  /\ batch.cancel_status = 404


\* C26: a cancel call for a task of the registry sets cancel_requested and is
\* answered 200; one for an unknown id is answered 404 and sets nothing; either
\* way the state, the counters, the result, the cached event, the subscribers and
\* every channel stay as they are.  The state becomes cancelled only in the step
\* where the job, back from the service, sees the flag.
CancelFrame(b) ==
  <<b.task.state, b.task.completed_ok, b.task.completed_fail, b.task.total, b.task.result,
    b.task.final, b.task.subscribers, b.queues, b.job, b.registry, b.expiry, b.streams>>

C26_CancelOnlyFlags ==
  [][/\ \A id \in TaskIds \cup UnknownIds :
          BatchCancel(id)
            => /\ CancelFrame(batch') = CancelFrame(batch)
               /\ IF id \in batch.registry
                  THEN batch'.task.cancel_requested /\ batch'.cancel_status = 200
                  ELSE /\ batch'.cancel_status = 404
                       /\ batch'.task.cancel_requested = batch.task.cancel_requested
     /\ batch'.task.state = "cancelled" /\ batch.task.state # "cancelled"
          => /\ batch.task.cancel_requested
             /\ batch.job.pc = "batch" /\ batch'.job.pc = "returned"]_vars

\* Cancel was requested and answered while a listener is attached: the task is
\* still running and the listener's channel is empty.
C26_Witness ==
  /\ batch.task.cancel_requested
  /\ batch.cancel_status = 200
  /\ batch.task.state = "running"
  /\ batch.job.pc = "batch"
  /\ batch.task.subscribers = {1}
  /\ batch.queues[1] = <<>>


\* C27: when the service's batch or the save raises, the same step of the job
\* puts the task in state error, caches an error event with the message and hands
\* it once to every subscriber, and the job returns; a job that returned left a
\* terminal task behind, no channel ever holds two terminal events, and a
\* returned job does nothing more.
ErrorEvent(message) == [type |-> "error", error |-> message]
Failed(message) ==
  /\ batch'.task.state = "error"
  /\ batch'.task.final = Some(ErrorEvent(message))
  /\ batch'.task.result = None
  /\ batch'.job = [batch.job EXCEPT !.pc = "returned"]
  /\ \A c \in Listeners :
       batch'.queues[c] = IF c \in batch.task.subscribers
                          THEN Append(batch.queues[c], ErrorEvent(message))
                          ELSE batch.queues[c]

C27_JobLeftTerminal ==
  /\ batch.job.pc = "returned" => batch.task.state \in TerminalStates
  /\ \A c \in Listeners : Cardinality(Terminals(batch.queues[c])) <= 1
  /\ batch.task.state = "error" => batch.job.pc = "returned"

C27_FailureIsTerminal ==
  /\ []C27_JobLeftTerminal
  /\ [][/\ BatchRaises => Failed("batch failed")
        /\ SaveRaises => Failed("save failed")
        /\ batch.job.pc = "returned" => batch'.job = batch.job]_vars

\* The save raised after every token was handled: the attached listener was
\* given the error event and returned, the job is over.
C27_Witness ==
  /\ batch.task.state = "error"
  /\ batch.task.final = Some(ErrorEvent("save failed"))
  /\ batch.task.completed_ok = 1
  /\ batch.job.pc = "returned"
  /\ Returned(1) /\ AttachedBefore(1)
  /\ Last(StreamOf(1).out) = ErrorEvent("save failed")


\* ------------------------------------------------------ limiter, continued
\* C28: a request with method OPTIONS, or made while the limiter is switched off,
\* or for a path outside /v1/, or under /v1/admin, /v1/files or /static/, or
\* whose route has limit 0, is forwarded to the handler, without a call of
\* allow and with every bucket left as it was.
SwitchedOn == config.enabled \/ (config.production /\ config.enabled_in_production)
Outside(rq) ==
  \/ rq.method = "OPTIONS"
  \/ ~SwitchedOn
  \/ ~IsPrefix(<<"v">>, rq.path)
  \/ \E p \in {<<"v", "a">>, <<"v", "f">>, <<"s">>} : IsPrefix(p, rq.path)
  \/ Resolved(rq.path) = 0

C28_OutsideUntouched ==
  [][Answers("dispatch") /\ Outside(call'.request)
       => /\ call'.forwarded /\ call'.status = 200
          /\ ~call'.asked
          /\ limiter' = limiter]_vars

\* With a bucket already filled, a request under /v1/admin went by.
C28_Witness ==
  /\ call.op = "dispatch"
  /\ call.request = Request("GET", <<"v", "a">>, "ak:1")
  /\ SwitchedOn
  /\ call.forwarded /\ ~call.asked
  /\ DOMAIN limiter.buckets = {BucketKey(Request("GET", <<"v", "c">>, "ak:1"))}
  /\ limiter.buckets[BucketKey(Request("GET", <<"v", "c">>, "ak:1"))] # <<>>


\* C29: every bucket is in non-decreasing order, holds no time later than now
\* and never more entries than the limit of its key; and when allow has just
\* answered for a key, every time in that key's bucket is later than
\* now - window.  (Between calls a bucket keeps what it holds.)
C29_Buckets ==
  \A k \in DOMAIN limiter.buckets :
    LET bucket == limiter.buckets[k]
    IN /\ \A i, j \in 1..Len(bucket) : i <= j => bucket[i] <= bucket[j]
       /\ \A i \in 1..Len(bucket) : bucket[i] <= limiter.monotonic
       /\ Len(bucket) <= LimitOf(k[2])

C29_BucketContents ==
  /\ []C29_Buckets
  /\ [][Asked =>
          LET bucket == limiter'.buckets[BucketKey(call'.request)]
          IN  \A i \in 1..Len(bucket) :
                bucket[i] > limiter'.monotonic - WindowTicks]_vars

\* A call was turned away although an older admission of its key had just
\* been evicted: the bucket is full of times of the running window.
C29_Witness ==
  /\ call.op = "dispatch" /\ call.asked /\ ~call.allowed
  /\ call.limit = 2
  /\ Len(limiter.buckets[BucketKey(call.request)]) = 2
  /\ Len(gh.admitted[BucketKey(call.request)]) = 3
  /\ limiter.buckets[BucketKey(call.request)][1] < limiter.monotonic

\* C29 as stated: at any instant every time of every bucket lies within
\* [now - window, now].
C29_AsStated ==
  \A k \in DOMAIN limiter.buckets :
    \A i \in 1..Len(limiter.buckets[k]) :
      /\ limiter.buckets[k][i] >= limiter.monotonic - WindowTicks
      /\ limiter.buckets[k][i] <= limiter.monotonic


\* ------------------------------------------------------- imagine, continued
\* The final-image events of the run of log[k] that precede log[k].
FinalsBefore(k) ==
  Cardinality({j \in 1..(k - 1) :
                 log[j].run = log[k].run /\ log[j].type = "image" /\ log[j].kind = "final"})
Counts(k) == log[k].kind \in {"round_done", "stopped"}

\* C30: every round_done carries the number of final-image events its run has
\* emitted before it, and so does the stopped event unless the run task was
\* cancelled while it was sending an image, in which case it carries that number
\* or one less; the counts of a run never decrease from one status event to the
\* next, whatever the rounds in between did.
C30_CountIsImagesSent ==
  \A k \in 1..Len(log) :
    Counts(k) =>
      /\ log[k].generated_count <= FinalsBefore(k)
      /\ log[k].generated_count >= FinalsBefore(k) - 1
      /\ log[k].kind = "round_done" \/ ~CancelledInImageSend
           => log[k].generated_count = FinalsBefore(k)
      /\ \A j \in 1..(k - 1) :
           Counts(j) /\ log[j].run = log[k].run
             => log[j].generated_count <= log[k].generated_count

\* Round 1 sent an image, round 2 came back empty, and the run was stopped:
\* round_done 1, round_done 2 and stopped all carry 1.
C30_Witness ==
  /\ Len(log) > 0
  /\ Last(log).kind = "stopped" /\ Last(log).generated_count = 1
  /\ \E i, j, k \in 1..Len(log) :
       /\ i < j /\ j < k
       /\ log[i].kind = "round_done" /\ log[i].round = 1 /\ log[i].generated_count = 1
       /\ log[j].kind = "empty_image"
       /\ log[k].kind = "round_done" /\ log[k].round = 2 /\ log[k].generated_count = 1

\* C30 as stated: round_done and stopped always carry the number of
\* final-image events emitted so far.
C30_AsStated ==
  \A k \in 1..Len(log) : Counts(k) => log[k].generated_count = FinalsBefore(k)


\* ---------------------------------------------------------------------- C31
\* The quantity the run of log[k] was started with, as its running event says.
TargetOf(k) ==
  LET at == {j \in 1..Len(log) : log[j].kind = "running" /\ log[j].run = log[k].run}
  IN IF at = {} THEN 0 ELSE log[CHOOSE j \in at : TRUE].target_count
Payload(k) == log[k].type \in {"image", "chunk"}

\* C31: with q > 0, a run whose count has reached q holds nothing more of the
\* round to send and is at the round_done or at the stopped event; no chunk or
\* image event follows the q-th final image of a run, only a round_done or the
\* stopped event does, and after a round_done that carries q only the stopped
\* event.
C31_NothingAfterQuantity ==
  /\ \A i \in 1..MaxStarts :
       tasks[i].target_count > 0 /\ tasks[i].final_count >= tasks[i].target_count
         => tasks[i].pc \in {"round_send", "stopped_send"} /\ tasks[i].data = <<>>
  /\ \A k \in 1..Len(log) :
       LET q == TargetOf(k)
           sent == IF q > 0 THEN FinalsBefore(k) ELSE 0
       IN q > 0 =>
            /\ Payload(k) => sent < q
            /\ sent >= q => log[k].kind \in {"round_done", "stopped"}
            /\ \A j \in 1..(k - 1) :
                 /\ log[j].run = log[k].run
                 /\ log[j].kind = "round_done"
                 /\ log[j].generated_count >= q
                 => log[k].kind = "stopped"

\* A list result of three images for q = 2: two image events, the round_done
\* and the stopped event with quantity_reached, and the third image never sent.
C31_Witness ==
  /\ Len(log) = 5
  /\ log[1].kind = "running" /\ log[1].target_count = 2
  /\ log[2].type = "image" /\ log[3].type = "image"
  /\ log[4].kind = "round_done" /\ log[4].generated_count = 2
  /\ log[5].kind = "stopped" /\ log[5].reason = "quantity_reached"
  /\ gh.produced = 3


\* ---- C32
\* The codes the claim lets an invalid frame be answered with: invalid_payload
\* for text that is no JSON object, invalid_action for a type that is neither
\* start nor stop, and for a start the code of each field that is wrong.
Matching(f) ==
  LET d == StartParams(<<>>)
  IN IF f.json = "garbage" THEN {"invalid_payload"}
     ELSE IF f.json # "object" THEN {"invalid_payload", "invalid_action"}
     ELSE IF f.type # "start" THEN {"invalid_action"}
     ELSE (IF Strip(f.prompt) = <<>> THEN {"invalid_prompt"} ELSE {})
            \cup (IF f.quantity # None /\ TheInt(f.quantity) \notin 0..200
                  THEN {"invalid_quantity"} ELSE {})
            \cup (IF f.concurrent # None /\ TheInt(f.concurrent) \notin 1..6
                  THEN {"invalid_concurrent"} ELSE {})

\* The step sends exactly one error event, of a code that matches the frame,
\* and leaves the connection's run as it is.
OneErrorOnly(f) ==
  /\ \E code \in Matching(f) : log' = Append(log, EvError(0, code))
  /\ tasks' = tasks
  /\ ws' = ws

\* C32, as stated: every frame that is neither a valid start nor a valid
\* stop is answered with exactly one error event of the matching code, and
\* the run in flight is neither stopped nor replaced.
C32_AsStated == [][\A f \in Frames : WsReceive(f) => OneErrorOnly(f)]_vars

\* What holds: the frames that are unparsable text or JSON objects are
\* answered so; valid JSON that is no object is not.
C32_ObjectsAnswered ==
  [][\A f \in Frames : f.json # "array" /\ WsReceive(f) => OneErrorOnly(f)]_vars

\* A run in flight has been sent an error event of the handler.
C32_Witness ==
  /\ transport = "messages"
  /\ MustStop(ws.run_task)
  /\ \E k \in HandlerEvents : log[k].kind = "invalid_concurrent"


\* ---- C33
\* C33, as stated: _stop_run called for a stop message or for a start that
\* replaces a run returns to the message loop, wherever the cancellation
\* landed in the run: the handler goes on receiving, and a replacing start
\* gets its run.
C33_AsStated ==
  [][ws.pc = "stop_wait" /\ ws.then \in {"start", "stop"} /\ ws'.pc # "stop_wait"
       => /\ ws'.pc = "recv"
          /\ ws.then = "start" => ws'.run_task = ws.run_task + 1]_vars

\* What holds: it returns when the cancellation landed inside the try
\* statement of the run's loop, or the run had ended by itself.
C33_ReturnsFromTry ==
  [][ws.pc = "stop_wait" /\ ws.then \in {"start", "stop"} /\ ws'.pc # "stop_wait"
       /\ gh.hit \in InTry
       => /\ ws'.pc = "recv"
          /\ ws.then = "start" => ws'.run_task = ws.run_task + 1]_vars


\* ---- C34
\* The events of the run of log[k] up to and including position k whose kind
\* is one of `kinds`.
EventsUpTo(k, kinds) ==
  {j \in 1..k : log[j].run = log[k].run /\ log[j].kind \in kinds}

\* C34, as stated: the k-th round_done of a run carries round = k.
C34_AsStated ==
  \A k \in 1..Len(log) :
    log[k].kind = "round_done"
      => log[k].round = Cardinality(EventsUpTo(k, {"round_done"}))

\* C34, amended: round numbers the loop iterations, not the round_done
\* events.  The round of a round_done is the number of iterations begun so
\* far: those that ended in a round_done, those that found no token
\* (rate_limit_exceeded) and those that raised (internal_error).  It is at
\* least k for the k-th round_done and increases from each to the next.
C34_RoundNumbersIterations ==
  \A k \in 1..Len(log) :
    log[k].kind = "round_done"
      => /\ log[k].round =
              Cardinality(EventsUpTo(k, {"round_done", "rate_limit_exceeded",
                                         "internal_error"}))
         /\ log[k].round >= Cardinality(EventsUpTo(k, {"round_done"}))
         /\ \A j \in 1..(k - 1) :
              log[j].kind = "round_done" /\ log[j].run = log[k].run
                => log[j].round < log[k].round

\* The first round_done of a run carries round 2: the first iteration found
\* no token.
C34_Witness ==
  /\ Len(log) >= 3
  /\ log[2].kind = "rate_limit_exceeded"
  /\ log[Len(log)].kind = "round_done"
  /\ log[Len(log)].round = 2
  /\ Cardinality(EventsUpTo(Len(log), {"round_done"})) = 1


\* ---- C35
\* The session under id is in the store and not older than the TTL.
Live(id) ==
  sessions[id].present /\ now - sessions[id].created_at <= IMAGINE_SESSION_TTL

\* C35, as stated: POST /imagine/stop counts the listed sessions that are in
\* the store and not older than the TTL; an expired session that has not been
\* swept counts 0.
C35_AsStated ==
  [][Answers("stop") =>
       call'.removed =
         Cardinality({k \in Range(call'.task_ids) \cap StoreIds : Live(k)})]_vars

\* A stop has counted a session that had expired and was still in the store.
C35_ExpiredCounted ==
  /\ call.op = "stop"
  /\ call.removed = 1
  /\ \E k \in Range(call.task_ids) \cap usedIds :
       /\ now - gh.given[k].created_at > IMAGINE_SESSION_TTL
       /\ Cardinality(Range(call.task_ids) \cap usedIds) = 1


\* ---- C36
\* C36, as stated: a task whose cancel was requested while it was running
\* does not go on to done.
C36_AsStated ==
  [][batch.task.state = "running" /\ batch.task.cancel_requested
       => batch'.task.state # "done"]_vars

\* C36, amended: the job looks at the flag once, when the batch returns.  A
\* cancel requested before that makes the task end cancelled (or error, when
\* the batch raised); the flag is never taken back, and while the job saves
\* the task is still running, so a cancel requested during the save is the
\* only one that a done can follow.
C36_CancelSeenAtReturn ==
  /\ [](batch.job.pc = "save" => batch.task.state = "running")
  /\ [][/\ batch.task.cancel_requested => batch'.task.cancel_requested
        /\ batch.job.pc = "batch" /\ batch'.job.pc # "batch"
             /\ batch.task.cancel_requested
             => batch'.task.state \in {"cancelled", "error"}
        /\ batch.task.state = "running" /\ batch.task.cancel_requested
             /\ batch'.task.state = "done"
             => batch.job.pc = "save"]_vars

\* The batch had handled its item when the cancel arrived, and the task
\* ended cancelled.
C36_Witness ==
  /\ batch.task.state = "cancelled"
  /\ batch.task.cancel_requested
  /\ Len(batch.job.raw) = 1
  /\ batch.job.pc = "returned"


\* ---- C37
\* The answer of a limiter that has only ever seen the admissions of the
\* request's own key and never purges.
OwnAnswer(rq, limit) ==
  Allow((BucketKey(rq) :> gh.admitted[BucketKey(rq)]), 0, BucketKey(rq), limit,
        WindowTicks, limiter.monotonic)

\* What is left of a key's bucket in the dict once the entries that have
\* left the window are evicted; nothing when the key is not in the dict.
KeptOf(k) ==
  Evict(IF k \in DOMAIN limiter.buckets THEN limiter.buckets[k] ELSE <<>>,
        limiter.monotonic - WindowTicks)

\* C37: the decision and retry_after a call gets are those of a limiter that
\* holds nothing but the admitted timestamps of the call's own key: calls on
\* other keys and the purge of stale keys change neither.  At every instant
\* a key's bucket, purged or not, evicts to what its own admissions evict to.
C37_OwnTimestampsOnly ==
  /\ [](\A k \in BucketKeys :
          KeptOf(k) = Evict(gh.admitted[k], limiter.monotonic - WindowTicks))
  /\ [][Asked =>
          LET own == OwnAnswer(call'.request, call'.limit)
          IN /\ call'.allowed = own.allowed
             /\ call'.retry_after = own.retry_after]_vars

\* A key admitted at 0 was purged by the admission of another key at 5 (the
\* dict holding more than 20000 keys), and has then been asked for again.
C37_Witness ==
  /\ limiter.strangers = 20000
  /\ limiter.monotonic = 5
  /\ WindowTicks = 2
  /\ call.op = "dispatch" /\ call.asked /\ call.allowed
  /\ gh.admitted[BucketKey(call.request)] = <<0, 5>>
  /\ \E k \in BucketKeys \ {BucketKey(call.request)} : gh.admitted[k] = <<5>>


\* ---- C38
\* The session whose id the attempt presented was live when it was made: it
\* had been created, was not older than the TTL and had not been stopped.
PresentedLive(a) ==
  /\ a.task_id \in CreatedIds
  /\ gh.created[a.task_id] # None
  /\ a.at - TheInt(gh.created[a.task_id]) <= IMAGINE_SESSION_TTL
  /\ a.task_id \notin a.stopped

\* The key the attempt presented passes: it is the configured key, or none
\* is configured and public access is enabled.
PresentedKeyPasses(a) ==
  \/ config.public_key # "" /\ a.key = config.public_key
  \/ config.public_key = "" /\ config.public_enabled

\* C38: a run exists on a WebSocket or an SSE connection only if the
\* connection, when it was opened, presented the id of a live session or a
\* key that passes; a connection that presented neither was refused and has
\* no run.  Every session was created by a start that passed the key check.
C38_RunsAreAdmitted ==
  /\ tasks[1].pc # "none" =>
       gh.ws.made /\ (PresentedLive(gh.ws) \/ PresentedKeyPasses(gh.ws))
  /\ tasks[2].pc # "none" =>
       gh.sse.made /\ (PresentedLive(gh.sse) \/ PresentedKeyPasses(gh.sse))
  /\ gh.ws.made /\ ~PresentedLive(gh.ws) /\ ~PresentedKeyPasses(gh.ws)
       => ws.pc = "closed" /\ tasks[1].pc = "none"
  /\ gh.sse.made /\ ~PresentedLive(gh.sse) /\ ~PresentedKeyPasses(gh.sse)
       => sse.run = 0 /\ tasks[2].pc = "none"
  /\ \A k \in CreatedIds :
       sessions[k].present =>
         gh.created[k] # None /\ PresentedKeyPasses([key |-> gh.creator[k]])

\* A WebSocket that presented the id of an expired session and a wrong key
\* was refused, and an SSE stream opened with a live session's id alone
\* has its run.
C38_Witness ==
  /\ config.public_key = "k"
  /\ gh.ws.task_id = "s1" /\ gh.ws.key = "x" /\ gh.ws.at = 601
  /\ ws.pc = "closed"
  /\ gh.sse.task_id = "s1" /\ gh.sse.key = "" /\ gh.sse.at = 300
  /\ tasks[2].pc = "created"


\* ---- C39
\* A proxy is configured: the argument is a dict with a non-blank http or
\* https entry.
ProxyConfigured(proxies) ==
  /\ proxies.dict
  /\ \E k \in {"http", "https"} \cap DOMAIN proxies.items :
       \E j \in DOMAIN proxies.items[k] : proxies.items[k][j] # " "

\* The answer is the proxy-TLS impersonation error: an Exception whose
\* message holds "curl: (35)", "tls connect error" and "invalid library" in
\* any case.
TlsImpersonationError(a) ==
  /\ a.how = "raise" /\ a.class = "Exception"
  /\ a.value \in {<<"curl: (35)", "TLS connect error", "invalid library">>,
                  <<"CURL: (35)", "tls connect error", "Invalid library">>}

\* When a second request follows the first answer.
RetryDue ==
  /\ TlsImpersonationError(call.answers[1])
  /\ call.browser = "chrome"
  /\ ProxyConfigured(call.proxies)

\* C39: at most two requests are issued; the second exactly when the first
\* raised the proxy-TLS impersonation error with a browser set and a proxy
\* configured, sent with the same proxies and without impersonate; the
\* function ends with the last answer unchanged, whatever it is, and any
\* other first error is raised again with one request issued.
C39_OneFallback ==
  /\ Len(call.sent) <= 2
  /\ Len(call.sent) = Len(call.answers) + (IF call.pc \in {"first", "second"} THEN 1 ELSE 0)
  /\ call.answers # <<>> => (Len(call.sent) = 2 <=> RetryDue)
  /\ Len(call.sent) = 2 =>
       /\ call.sent[1].impersonate = "chrome"
       /\ call.sent[2] = [call.sent[1] EXCEPT !.impersonate = "absent"]
  /\ call.pc = "ended" => call.ended = call.answers[Len(call.answers)]

\* The fallback request raised the same TLS error, and that is how the
\* function ended: no third request.
C39_Witness ==
  /\ call.pc = "ended"
  /\ Len(call.sent) = 2
  /\ call.sent[2].proxies = Dict([k \in {"https"} |-> <<"u">>])
  /\ call.ended = Raises("Exception", <<"curl: (35)", "TLS connect error", "invalid library">>)


\* ---- C40
\* C40, as stated: the masked configuration submitted back unchanged is
\* restored to the stored one.
C40_AsStated == call.op = "update_config" => call.merged = config

\* A value holds a list with a non-empty string in it, at a sensitive path.
RECURSIVE HoldsListedSecret(_, _)
HoldsListedSecret(data, path) ==
  CASE data.t = "dict" ->
         \E key \in DOMAIN data.v : HoldsListedSecret(data.v[key], Append(path, key))
    [] data.t = "list" ->
         \E j \in DOMAIN data.v :
           \/ data.v[j].t = "str" /\ data.v[j].v # <<>> /\ IsSensitivePath(path)
           \/ HoldsListedSecret(data.v[j], path)
           \/ data.v[j].t = "dict" /\
                \E key \in DOMAIN data.v[j].v :
                  /\ data.v[j].v[key].t = "str" /\ data.v[j].v[key].v # <<>>
                  /\ IsSensitivePath(Append(path, key))
    [] OTHER -> FALSE

\* What holds: the round trip gives the stored configuration back exactly
\* when no secret sits in a list.
C40_ListsAreLost ==
  call.op = "update_config" =>
    (call.merged = config <=> ~HoldsListedSecret(config, <<>>))

\* A secret longer than head + tail, masked in the answer and restored.
C40_Restored ==
  /\ call.op = "update_config"
  /\ call.merged = config
  /\ Len(config.v["app"].v["api_key"].v) = 17
  /\ Len(call.body.v["app"].v["api_key"].v) = 19
  /\ config.v["app"].v["tokens"] = String(<<"s">>)

====
